---- MODULE Spec2Model ----
(***************************************************************************)
(* Model of the ASMG interpreter (src/interpreter): the CMSD document      *)
(* validator, the name sanitizer, the mapping engine and the Plant         *)
(* Simulation interface driven by ASMGInterpreter.process_xml_file.        *)
(*                                                                         *)
(* Three specifications share the operators below:                         *)
(*   Spec          the pipeline of process_xml_file                        *)
(*   SpecValidate  DataValidator.validate applied to bounded documents     *)
(*   SpecSanitize  NameSanitizer.sanitize_name applied to bounded names    *)
(***************************************************************************)
EXTENDS Integers, Sequences, FiniteSets, TLC

VARIABLES
    \* ---- SpecSanitize ----
    s_pc, s_config, s_name, s_once, s_twice,
    \* ---- SpecValidate ----
    v_pc, v_data, v_result,
    \* ---- SpecMap ----
    m_pc, m_naming, m_data, m_engine, m_mappings,
    \* ---- Spec: process_xml_file ----
    pc,                  \* position in process_xml_file
    stages,              \* the stages entered so far, in order
    returned,            \* what process_xml_file returned: "none", "true", "false"
    error_handling,      \* config["error_handling"]
    backend,             \* "com", "native" or "mock" (_init_plantsim_objects)
    faults,              \* backend calls that have raised so far
    cmsd_data,           \* the parsed document
    validation_result,   \* DataValidator.validate(cmsd_data)
    engine,              \* MappingEngine: material_units, next_mu_letter
    mappings,            \* map_cmsd_data(cmsd_data), with the errors added later
    oi,                  \* create_objects: index of the next mapping
    created_objects,     \* create_objects: the local dict it returns
    interface,           \* PlantSimInterface: created_objects, created_connections,
                         \*   material_units, stats
    ci,                  \* create_connections: index of the next connection
    created_connections, \* create_connections: the local list it returns
    ops,                 \* the backend calls issued so far, in order
    issues,              \* validate_created_objects()
    \* XMLParser.parse_file on one input
    x_pc,                \* "idle", "input", "parsed", "failed"
    x_root,              \* the XML input
    x_result,            \* the CMSDData returned
    \* plant_sim_controller: load_model, start_simulation or stop_simulation
    w_pc,                \* "idle", "input", "polling", "fallback", "returned"
    w_call,              \* the function called
    w_path_exists,       \* Path(model_path).exists()
    w_timeout,           \* the helper's timeout, in polling intervals
    w_elapsed,           \* time.time() - start_time, in polling intervals
    w_probes,            \* what the backend answered to each poll so far
    w_waited,            \* what the polling helper returned: "none", "true", "false"
    w_result             \* what the function returned: "none", "true", "false"

s_vars == <<s_pc, s_config, s_name, s_once, s_twice>>
v_vars == <<v_pc, v_data, v_result>>
p_vars == <<pc, stages, returned, error_handling, backend, faults, cmsd_data,
            validation_result, engine, mappings, oi, created_objects, interface,
            ci, created_connections, ops, issues>>
m_vars == <<m_pc, m_naming, m_data, m_engine, m_mappings>>
x_vars == <<x_pc, x_root, x_result>>
w_vars == <<w_pc, w_call, w_path_exists, w_timeout, w_elapsed, w_probes, w_waited, w_result>>
vars == <<s_vars, v_vars, m_vars, p_vars, x_vars, w_vars>>

(***************************************************************************)
(* Bounds                                                                  *)
(***************************************************************************)
MaxNameLen == 3
MaxConn == 2
MaxLO == 2
MaxExtra == 1
MaxFaults == 2

(***************************************************************************)
(* Generic helpers                                                         *)
(***************************************************************************)
Range(s) == {s[i] : i \in DOMAIN s}

SeqsUpTo(S, n) == UNION {[1..k -> S] : k \in 0..n}

Count(s, P(_)) == Cardinality({i \in DOMAIN s : P(s[i])})

(***************************************************************************)
(* Strings of the sanitizer are sequences of one-character strings.        *)
(* str.upper / str.lower / str.isdigit on the characters used.             *)
(***************************************************************************)
LowerAlpha == <<"a", "b", "d", "e", "j", "m", "n", "o", "u">>
UpperAlpha == <<"A", "B", "D", "E", "J", "M", "N", "O", "U">>
DigitChars == {"0", "1", "2", "3", "4", "5", "6", "7", "8", "9"}

upper_char(c) ==
    IF \E i \in DOMAIN LowerAlpha : LowerAlpha[i] = c
    THEN UpperAlpha[CHOOSE i \in DOMAIN LowerAlpha : LowerAlpha[i] = c]
    ELSE c

lower_char(c) ==
    IF \E i \in DOMAIN UpperAlpha : UpperAlpha[i] = c
    THEN LowerAlpha[CHOOSE i \in DOMAIN UpperAlpha : UpperAlpha[i] = c]
    ELSE c

str_upper(s) == [i \in DOMAIN s |-> upper_char(s[i])]
str_lower(s) == [i \in DOMAIN s |-> lower_char(s[i])]
isdigit(c) == c \in DigitChars

\* str.replace(old, new) for a one-character old and a string new
RECURSIVE str_replace(_, _, _)
str_replace(s, old, new) ==
    IF s = <<>> THEN <<>>
    ELSE (IF Head(s) = old THEN new ELSE <<Head(s)>>) \o str_replace(Tail(s), old, new)

\* for char in invalid_chars: name = name.replace(char, replacement_char)
RECURSIVE replace_invalid_chars(_, _, _)
replace_invalid_chars(name, invalid_chars, replacement_char) ==
    IF invalid_chars = <<>> THEN name
    ELSE replace_invalid_chars(str_replace(name, Head(invalid_chars), replacement_char),
                               Tail(invalid_chars), replacement_char)

Unnamed == <<"u", "n", "n", "a", "m", "e", "d">>
ObjPrefix == <<"o", "b", "j", "_">>
DefaultMaxLength == 32

apply_case(case_handling, name) ==
    IF case_handling = "upper" THEN str_upper(name)
    ELSE IF case_handling = "lower" THEN str_lower(name)
    ELSE name

truncate(name, max_length) ==
    IF Len(name) > max_length THEN SubSeq(name, 1, max_length) ELSE name

fix_leading_digit(name) ==
    IF name # <<>> /\ isdigit(name[1]) THEN ObjPrefix \o name ELSE name

\* NameSanitizer.sanitize_name
sanitize_name(config, name) ==
    IF name = <<>> THEN Unnamed
    ELSE fix_leading_digit(
           truncate(
             replace_invalid_chars(apply_case(config.case_handling, name),
                                   config.invalid_chars, config.replacement_char),
             config.max_length))

(***************************************************************************)
(* SpecSanitize: sanitize_name applied once, then to its own result        *)
(***************************************************************************)
NameChars == {"a", "B", "1", "_", " "}
Names == SeqsUpTo(NameChars, MaxNameLen)
CaseHandlings == {"preserve", "upper", "lower"}
InvalidCharLists == {<<>>, <<" ">>, <<" ", "_">>, <<"a", "B">>}
ReplacementChars == {<<"_">>, <<"1">>}
MaxLengths == {2, DefaultMaxLength}
NamingConfigs ==
    [case_handling : CaseHandlings, invalid_chars : InvalidCharLists,
     replacement_char : ReplacementChars, max_length : MaxLengths]
DefaultNaming ==
    [case_handling |-> "preserve", invalid_chars |-> <<>>,
     replacement_char |-> <<"_">>, max_length |-> DefaultMaxLength]

InitSanitizeVars ==
    /\ s_pc = "idle"
    /\ s_config = DefaultNaming
    /\ s_name = <<>>
    /\ s_once = <<>>
    /\ s_twice = <<>>

InitSanitize ==
    /\ s_pc = "input"
    /\ s_config \in NamingConfigs
    /\ s_name \in Names
    /\ s_once = <<>>
    /\ s_twice = <<>>

(***************************************************************************)
(* Data model (data_models.py).  A dict is a sequence of entries with      *)
(* distinct keys, in insertion order.                                      *)
(***************************************************************************)
\* ValidationResult(is_valid=True)
new_validation_result == [is_valid |-> TRUE, errors |-> <<>>, warnings |-> <<>>]

\* a slip: the error is recorded but the result stays valid
add_error_keeps_valid(result, message) ==
    [result EXCEPT !.errors = Append(@, message)]

\* ValidationResult.add_error
add_error(result, message) ==
    [result EXCEPT !.errors = Append(@, message), !.is_valid = FALSE]

\* ValidationResult.add_warning
add_warning(result, message) ==
    [result EXCEPT !.warnings = Append(@, message)]

\* the formatted messages of DataValidator.validate, by their parts
Msg(kind, id, ref) == [kind |-> kind, id |-> id, ref |-> ref]

resource_ids(data) == {data.resources[i].identifier : i \in DOMAIN data.resources}
layout_object_ids(data) == {data.layout_objects[i].identifier : i \in DOMAIN data.layout_objects}

check_required_fields(data, result) ==
    LET r1 == IF data.document_identifier = ""
              THEN add_error(result, Msg("missing_document_identifier", "", ""))
              ELSE result
    IN IF data.resources = <<>>
       THEN add_error(r1, Msg("no_resources", "", ""))
       ELSE r1

\* a slip: the loop over the layout objects stops at the first violation
RECURSIVE check_layout_objects_first_only(_, _, _)
check_layout_objects_first_only(data, los, result) ==
    IF los = <<>> THEN result
    ELSE LET lo == Head(los)
         IN IF lo.associated_resource_id \notin resource_ids(data)
            THEN add_error(result, Msg("layout_object_unknown_resource",
                                       lo.identifier, lo.associated_resource_id))
            ELSE check_layout_objects_first_only(data, Tail(los), result)

RECURSIVE check_layout_objects(_, _, _)
check_layout_objects(data, los, result) ==
    IF los = <<>> THEN result
    ELSE LET lo == Head(los)
             r1 == IF lo.associated_resource_id \notin resource_ids(data)
                   THEN add_error(result, Msg("layout_object_unknown_resource",
                                              lo.identifier, lo.associated_resource_id))
                   ELSE result
         IN check_layout_objects(data, Tail(los), r1)

RECURSIVE check_placements(_, _, _)
check_placements(data, pls, result) ==
    IF pls = <<>> THEN result
    ELSE LET p == Head(pls)
             r1 == IF p.layout_element_id \notin layout_object_ids(data)
                   THEN add_error(result, Msg("placement_unknown_layout_object",
                                              "", p.layout_element_id))
                   ELSE result
         IN check_placements(data, Tail(pls), r1)

\* a slip: elif instead of if, the target is checked only when the source exists
check_connection_elif(data, connection, result) ==
    IF connection.from_resource_id \notin resource_ids(data)
    THEN add_error(result, Msg("connection_unknown_source",
                               connection.identifier, connection.from_resource_id))
    ELSE IF connection.to_resource_id \notin resource_ids(data)
    THEN add_error(result, Msg("connection_unknown_target",
                               connection.identifier, connection.to_resource_id))
    ELSE result

\* the loop body of "Validate connections"
check_connection(data, connection, result) ==
    LET r1 == IF connection.from_resource_id \notin resource_ids(data)
              THEN add_error(result, Msg("connection_unknown_source",
                                         connection.identifier, connection.from_resource_id))
              ELSE result
    IN IF connection.to_resource_id \notin resource_ids(data)
       THEN add_error(r1, Msg("connection_unknown_target",
                              connection.identifier, connection.to_resource_id))
       ELSE r1

RECURSIVE check_connections(_, _, _)
check_connections(data, conns, result) ==
    IF conns = <<>> THEN result
    ELSE check_connections(data, Tail(conns), check_connection(data, Head(conns), result))

resources_with_layout(data) ==
    {data.layout_objects[i].associated_resource_id : i \in DOMAIN data.layout_objects}

RECURSIVE check_orphaned_resources(_, _, _)
check_orphaned_resources(data, rs, result) ==
    IF rs = <<>> THEN result
    ELSE LET rid == Head(rs).identifier
             r1 == IF rid \notin resources_with_layout(data)
                   THEN add_warning(result, Msg("resource_without_layout_object", rid, ""))
                   ELSE result
         IN check_orphaned_resources(data, Tail(rs), r1)

\* DataValidator.validate
validate(data) ==
    LET r1 == check_required_fields(data, new_validation_result)
        r2 == check_layout_objects(data, data.layout_objects, r1)
        r3 == IF data.layout.present
              THEN check_placements(data, data.layout.placements, r2)
              ELSE r2
        r4 == check_connections(data, data.connections, r3)
    IN check_orphaned_resources(data, data.resources, r4)

(***************************************************************************)
(* Python values carried by a mapping: one record shape for every type.    *)
(*   t   type tag: "str", "chars", "float", "int", "list", "dict"          *)
(*   s   text of a str (or the product_type of the material-unit dict)     *)
(*   s2  mu_name of the material-unit dict                                 *)
(*   cs  characters of a sanitized name                                    *)
(*   n   number of an int or float                                         *)
(*   l   elements of a list                                                *)
(***************************************************************************)
PyVal(t, s, s2, cs, n, l) == [t |-> t, s |-> s, s2 |-> s2, cs |-> cs, n |-> n, l |-> l]
str_val(s) == PyVal("str", s, "", <<>>, 0, <<>>)
chars_val(cs) == PyVal("chars", "", "", cs, 0, <<>>)
float_val(n) == PyVal("float", "", "", <<>>, n, <<>>)
int_val(n) == PyVal("int", "", "", <<>>, n, <<>>)
list_val(l) == PyVal("list", "", "", <<>>, 0, l)
dict_val(product_type, mu_name) == PyVal("dict", product_type, mu_name, <<>>, 0, <<>>)
\* str(x) of a float x: text that float() reads back as the same number
numtext_val(n) == PyVal("numtext", "", "", <<>>, n, <<>>)

\* str.lower(): every resource type, rule key, alias and property name used
\* that has an upper-case letter is listed; the other strings used have none
lower(s) ==
    CASE s \in {"Station", "STATION", "station"} -> "station"
      [] s \in {"Machine", "MACHINE", "machine"} -> "machine"
      [] s \in {"Source", "SOURCE", "source"} -> "source"
      [] s \in {"Buffer", "buffer"} -> "buffer"
      [] s \in {"Robot", "robot"} -> "robot"
      [] s \in {"Conveyor", "CONVEYOR", "conveyor"} -> "conveyor"
      [] s \in {"Drain", "drain"} -> "drain"
      [] s \in {"Crane", "crane"} -> "crane"
      [] s \in {"Sink", "sink"} -> "sink"
      [] s \in {"Agv", "agv"} -> "agv"
      [] s \in {"Pallet", "pallet"} -> "pallet"
      [] s \in {"Capacity", "capacity"} -> "capacity"
      [] s \in {"ProcessingTime", "processingtime", "PROCESSINGTIME"} -> "processingtime"
      [] s \in {"ProductType", "producttype"} -> "producttype"
      [] s \in {"Speed", "speed", "SPEED"} -> "speed"
      [] s \in {"Name", "name", "NAME"} -> "name"
      [] s \in {"Dimensions", "dimensions"} -> "dimensions"
      [] s \in {"Color", "color"} -> "color"
      [] s \in {"Coordinate3D", "coordinate3d"} -> "coordinate3d"
      [] s \in {"_3D.Rotation", "_3d.rotation"} -> "_3d.rotation"
      [] s \in {"Path", "path"} -> "path"
      [] s \in {"ProcTime", "proctime"} -> "proctime"
      [] OTHER -> s

\* float("inf"), and the exception of int(float("inf"))
inf_val == PyVal("inf", "", "", <<>>, 0, <<>>)
OverflowError == PyVal("OverflowError", "", "", <<>>, 0, <<>>)

\* float(text): ok is FALSE where Python raises ValueError, inf is TRUE where
\* the float is infinite
py_float(text) ==
    CASE text = "0" -> [ok |-> TRUE, n |-> 0, inf |-> FALSE]
      [] text = "2" -> [ok |-> TRUE, n |-> 2, inf |-> FALSE]
      [] text = "5" -> [ok |-> TRUE, n |-> 5, inf |-> FALSE]
      [] text = "-1" -> [ok |-> TRUE, n |-> -1, inf |-> FALSE]
      [] text \in {"inf", "1e999"} -> [ok |-> TRUE, n |-> 0, inf |-> TRUE]
      [] OTHER -> [ok |-> FALSE, n |-> 0, inf |-> FALSE]

(***************************************************************************)
(* Mapping configuration (plantsim_mapping.yaml is loaded at run time by   *)
(* MappingEngine._load_config): a rule table that exercises every branch.  *)
(***************************************************************************)
PropRule(xml, ps, dt, uc, sh) ==
    [xml_name |-> xml, plantsim_property |-> ps, data_type |-> dt,
     unit_conversion |-> uc, special_handler |-> sh]

resource_mappings ==
    << [key |-> "station", template |-> "Station", alias |-> "machine",
        properties |-> <<PropRule("ProcessingTime", "ProcTime", "float", "time", "")>>,
        required_properties |-> <<>>, default_properties |-> <<>>],
       [key |-> "source", template |-> "Source", alias |-> "",
        properties |-> <<PropRule("ProductType", "Path", "string", "", "assign_material_unit")>>,
        required_properties |-> <<>>, default_properties |-> <<>>],
       [key |-> "buffer", template |-> "", alias |-> "",
        properties |-> <<>>,
        required_properties |-> <<>>, default_properties |-> <<>>],
       [key |-> "conveyor", template |-> "Conveyor", alias |-> "",
        properties |-> <<PropRule("Speed", "Speed", "float", "", "")>>,
        required_properties |-> <<"speed">>,
        default_properties |-> <<[name |-> "speed", value |-> 2]>>],
       [key |-> "drain", template |-> "Drain", alias |-> "Sink",
        properties |-> <<PropRule("Capacity", "Capacity", "int", "", "")>>,
        required_properties |-> <<"capacity">>, default_properties |-> <<>>],
       [key |-> "Crane", template |-> "Crane", alias |-> "",
        properties |-> <<>>,
        required_properties |-> <<>>, default_properties |-> <<>>],
       [key |-> "agv", template |-> "Agv", alias |-> "",
        properties |-> <<PropRule("Speed", "Speed", "float", "", ""),
                         PropRule("Capacity", "Capacity", "int", "", "")>>,
        required_properties |-> <<"Speed", "Capacity">>,
        default_properties |-> <<[name |-> "Speed", value |-> 2]>>],
       [key |-> "pallet", template |-> "Pallet", alias |-> "",
        properties |-> <<PropRule("Dimensions", "Dimensions", "list", "", ""),
                         PropRule("Color", "Color", "string", "", "")>>,
        required_properties |-> <<>>, default_properties |-> <<>>] >>

unit_conversions ==
    << [type |-> "time", base_unit |-> "second",
        conversions |-> <<[unit |-> "minute", multiplier |-> 60]>>] >>

validation_ranges == << [name |-> "ProcessingTime", min |-> 0, max |-> 1000] >>

\* UnitConverter.convert
convert(value, from_unit, conversion_type) ==
    IF ~\E i \in DOMAIN unit_conversions : unit_conversions[i].type = conversion_type
    THEN value
    ELSE LET type_config == unit_conversions[CHOOSE i \in DOMAIN unit_conversions :
                                               unit_conversions[i].type = conversion_type]
             conversions == type_config.conversions
         IN IF from_unit = type_config.base_unit
               \/ ~\E j \in DOMAIN conversions : conversions[j].unit = from_unit
            THEN value
            ELSE value * conversions[CHOOSE j \in DOMAIN conversions :
                                       conversions[j].unit = from_unit].multiplier

\* MappingEngine._convert_property_value; xml_property.value is a text
convert_property_value(xml_property, data_type, unit_conversion) ==
    LET f == py_float(xml_property.value)
        converted == unit_conversion # "" /\ xml_property.unit # "" /\ f.ok
        n == IF converted THEN convert(f.n, xml_property.unit, unit_conversion) ELSE f.n
    IN IF data_type = "int"
       THEN (IF ~f.ok THEN int_val(0) ELSE IF f.inf THEN OverflowError ELSE int_val(n))
       ELSE IF data_type \in {"float", "positive_float"}
            THEN (IF ~f.ok THEN float_val(0) ELSE IF f.inf THEN inf_val ELSE float_val(n))
       ELSE IF converted THEN (IF f.inf THEN str_val("inf") ELSE numtext_val(n))
       ELSE str_val(xml_property.value)

\* float(str(value)) of a mapped value
num_of(value) ==
    IF value.t = "str" THEN py_float(value.s)
    ELSE [ok |-> TRUE, n |-> value.n, inf |-> value.t = "inf"]

\* int(str(value)) of a mapped value: the text of a float ("300.0") is no int
\* literal; the texts py_float reads are int literals as well
int_of(value) ==
    CASE value.t = "int" -> [ok |-> TRUE, n |-> value.n]
      [] value.t = "str" -> [py_float(value.s) EXCEPT !.ok = @ /\ ~py_float(value.s).inf]
      [] OTHER -> [ok |-> FALSE, n |-> 0]

\* PropertyValidator._validate_data_type
validate_data_type(value, data_type) ==
    CASE data_type = "string" -> value.t \in {"str", "numtext"}
      [] data_type = "int" -> int_of(value).ok
      [] data_type = "float" -> num_of(value).ok
      [] data_type = "positive_int" -> int_of(value).ok /\ int_of(value).n >= 0
      [] data_type = "positive_float" ->
             num_of(value).ok /\ (num_of(value).inf \/ num_of(value).n >= 0)
      [] OTHER -> TRUE

\* PropertyValidator.validate_property: "" when valid, else the kind of error
validate_property(prop_name, value, data_type) ==
    IF ~validate_data_type(value, data_type) THEN "invalid_data_type"
    ELSE IF /\ data_type \in {"float", "int", "positive_float", "positive_int"}
            /\ \E i \in DOMAIN validation_ranges :
                  /\ validation_ranges[i].name = prop_name
                  /\ \/ num_of(value).inf
                     \/ ~(validation_ranges[i].min <= num_of(value).n
                           /\ num_of(value).n <= validation_ranges[i].max)
         THEN "outside_valid_range"
    ELSE ""

(***************************************************************************)
(* PlantSimMapping and the mapping engine                               *)
(***************************************************************************)
\* PlantSimMapping.__init__
new_mapping(resource, mapping_config) ==
    [resource |-> resource, template |-> mapping_config.template,
     properties |-> <<>>, errors |-> <<>>, warnings |-> <<>>]

\* PlantSimMapping.add_property: a dict assignment keeps the key's first position
add_property(mapping, ps_property, value, data_type) ==
    LET entry == [name |-> ps_property, value |-> value, data_type |-> data_type]
        props == mapping.properties
    IN IF \E i \in DOMAIN props : props[i].name = ps_property
       THEN [mapping EXCEPT !.properties =
                [i \in DOMAIN props |-> IF props[i].name = ps_property THEN entry ELSE props[i]]]
       ELSE [mapping EXCEPT !.properties = Append(props, entry)]

\* PlantSimMapping.add_error
mapping_add_error(mapping, message) == [mapping EXCEPT !.errors = Append(@, message)]

\* PlantSimMapping.add_warning
mapping_add_warning(mapping, message) == [mapping EXCEPT !.warnings = Append(@, message)]

\* Resource.get_property: first property whose lower-cased name matches, or none
has_property(resource, property_name) ==
    \E i \in DOMAIN resource.properties :
        lower(resource.properties[i].name) = lower(property_name)

get_property(resource, property_name) ==
    resource.properties[CHOOSE i \in DOMAIN resource.properties :
        /\ lower(resource.properties[i].name) = lower(property_name)
        /\ \A j \in 1..(i - 1) : lower(resource.properties[j].name) # lower(property_name)]

\* CMSDData.get_placement
has_placement(data, layout_element_id) ==
    /\ data.layout.present
    /\ \E i \in DOMAIN data.layout.placements :
          data.layout.placements[i].layout_element_id = layout_element_id

get_placement(data, layout_element_id) ==
    data.layout.placements[CHOOSE i \in DOMAIN data.layout.placements :
        data.layout.placements[i].layout_element_id = layout_element_id]

\* ord("A"), MappingEngine.__init__
OrdA == 65

\* f"Part{chr(letter)}"
mu_label(letter) ==
    CASE letter = 65 -> "PartA" [] letter = 66 -> "PartB" [] letter = 67 -> "PartC"
      [] letter = 68 -> "PartD" [] letter = 69 -> "PartE" [] OTHER -> "PartZ"

\* MappingEngine.__init__: material unit tracking
new_engine == [material_units |-> <<>>, next_mu_letter |-> OrdA]

\* a slip: a product type seen before is given a new label all the same
handle_material_unit_assignment_always_new(st, xml_property) ==
    LET product_type == xml_property.value
        mus == st.engine.material_units
        mu_name == mu_label(st.engine.next_mu_letter)
        engine1 == [material_units |->
                       Append(mus, [product_type |-> product_type, mu_name |-> mu_name]),
                    next_mu_letter |-> st.engine.next_mu_letter + 1]
        m1 == [st.mapping EXCEPT !.properties =
                  Append(@, [name |-> "Path", value |-> PyVal("str", mu_name, "", <<>>, 0, <<>>),
                             data_type |-> "material_unit"])]
    IN [engine |-> engine1, mapping |-> m1]

\* MappingEngine._handle_material_unit_assignment; st is [engine, mapping]
handle_material_unit_assignment(st, xml_property) ==
    LET product_type == xml_property.value
        mus == st.engine.material_units
        known == \E i \in DOMAIN mus : mus[i].product_type = product_type
        mu_name == IF known
                   THEN mus[CHOOSE i \in DOMAIN mus : mus[i].product_type = product_type].mu_name
                   ELSE mu_label(st.engine.next_mu_letter)
        engine1 == IF known THEN st.engine
                   ELSE [material_units |->
                            Append(mus, [product_type |-> product_type, mu_name |-> mu_name]),
                         next_mu_letter |-> st.engine.next_mu_letter + 1]
        m1 == add_property(st.mapping, "Path", str_val(mu_name), "material_unit")
        m2 == add_property(m1, "_material_unit_info", dict_val(product_type, mu_name), "special")
    IN [engine |-> engine1, mapping |-> m2]

\* MappingEngine._handle_special_property
handle_special_property(st, xml_property, handler_name) ==
    IF handler_name = "assign_material_unit"
    THEN handle_material_unit_assignment(st, xml_property)
    ELSE [st EXCEPT !.mapping = mapping_add_warning(@, Msg("unknown_special_handler", handler_name, ""))]

\* MappingEngine._map_single_property
map_single_property(st, prop_config) ==
    IF ~has_property(st.mapping.resource, prop_config.xml_name) THEN st
    ELSE LET xml_property == get_property(st.mapping.resource, prop_config.xml_name)
         IN IF prop_config.special_handler # ""
            THEN handle_special_property(st, xml_property, prop_config.special_handler)
            ELSE LET value == convert_property_value(xml_property, prop_config.data_type,
                                                     prop_config.unit_conversion)
                     error_msg == validate_property(prop_config.xml_name, value,
                                                    prop_config.data_type)
                 IN IF error_msg # ""
                    THEN [st EXCEPT !.mapping =
                             mapping_add_error(@, Msg(error_msg, prop_config.xml_name, ""))]
                    ELSE [st EXCEPT !.mapping =
                             add_property(@, prop_config.plantsim_property, value,
                                          prop_config.data_type)]

RECURSIVE map_configured_properties(_, _)
map_configured_properties(st, properties_config) ==
    IF properties_config = <<>> THEN st
    ELSE map_configured_properties(map_single_property(st, Head(properties_config)),
                                   Tail(properties_config))

\* properties_config.get(req_prop, {}).get("plantsim_property", req_prop)
required_target(properties_config, req_prop) ==
    IF \E i \in DOMAIN properties_config : properties_config[i].xml_name = req_prop
    THEN properties_config[CHOOSE i \in DOMAIN properties_config :
                             properties_config[i].xml_name = req_prop].plantsim_property
    ELSE req_prop

\* a slip: the default is used without a warning
check_required_property_no_warning(mapping, mapping_config, req_prop) ==
    LET present == \E i \in DOMAIN mapping.resource.properties :
                      lower(mapping.resource.properties[i].name) = req_prop
        defaults == mapping_config.default_properties
    IN IF present THEN mapping
       ELSE IF \E i \in DOMAIN defaults : defaults[i].name = req_prop
       THEN [mapping EXCEPT !.properties =
                Append(@, [name |-> req_prop,
                           value |-> PyVal("float", "", "", <<>>,
                                       defaults[CHOOSE i \in DOMAIN defaults :
                                                  defaults[i].name = req_prop].value, <<>>),
                           data_type |-> "float"])]
       ELSE [mapping EXCEPT !.errors = Append(@, Msg("required_not_found", req_prop, ""))]

\* the loop body of "Check required properties" in _map_resource_properties
check_required_property(mapping, mapping_config, req_prop) ==
    LET present == \E i \in DOMAIN mapping.resource.properties :
                      lower(mapping.resource.properties[i].name) = req_prop
        defaults == mapping_config.default_properties
    IN IF present THEN mapping
       ELSE IF \E i \in DOMAIN defaults : defaults[i].name = req_prop
       THEN LET default_value == defaults[CHOOSE i \in DOMAIN defaults :
                                            defaults[i].name = req_prop].value
                ps_prop == required_target(mapping_config.properties, req_prop)
            IN mapping_add_warning(
                  add_property(mapping, ps_prop, float_val(default_value), "float"),
                  Msg("using_default", req_prop, ""))
       ELSE mapping_add_error(mapping, Msg("required_not_found", req_prop, ""))

RECURSIVE check_required_properties(_, _, _)
check_required_properties(mapping, mapping_config, required_props) ==
    IF required_props = <<>> THEN mapping
    ELSE check_required_properties(
            check_required_property(mapping, mapping_config, Head(required_props)),
            mapping_config, Tail(required_props))

\* MappingEngine._map_resource_properties
map_resource_properties(st, mapping_config) ==
    LET st1 == map_configured_properties(st, mapping_config.properties)
    IN [st1 EXCEPT !.mapping =
           check_required_properties(@, mapping_config, mapping_config.required_properties)]

\* MappingEngine._map_basic_properties
map_basic_properties(naming, mapping, has_pl, placement) ==
    IF ~has_pl THEN mapping_add_warning(mapping, Msg("no_placement", "", ""))
    ELSE LET position == placement.position
             m1 == add_property(mapping, "Coordinate3D",
                                list_val(<<position.x, position.y, position.z>>), "list")
             m2 == IF placement.rotation.present
                   THEN add_property(m1, "_3D.Rotation",
                           list_val(<<placement.rotation.angle, placement.rotation.axis_x,
                                      placement.rotation.axis_y, placement.rotation.axis_z>>),
                           "list")
                   ELSE m1
         IN add_property(m2, "name", chars_val(sanitize_name(naming, mapping.resource.name)),
                         "string")

\* resource_mappings.get(resource_type), then the first entry whose alias matches
has_mapping_config(rules, resource_type) ==
    \E i \in DOMAIN rules : rules[i].key = resource_type \/ rules[i].alias = resource_type

find_mapping_config(rules, resource_type) ==
    IF \E i \in DOMAIN rules : rules[i].key = resource_type
    THEN rules[CHOOSE i \in DOMAIN rules : rules[i].key = resource_type]
    ELSE rules[CHOOSE i \in DOMAIN rules :
                 /\ rules[i].alias = resource_type
                 /\ \A j \in 1..(i - 1) : rules[j].alias # resource_type]

\* MappingEngine._create_object_mapping, for a resource type that has a rule
create_object_mapping(rules, naming, eng, resource, has_pl, placement) ==
    LET mapping_config == find_mapping_config(rules, lower(resource.resource_type))
        m0 == new_mapping(resource, mapping_config)
        m1 == map_basic_properties(naming, m0, has_pl, placement)
    IN map_resource_properties([engine |-> eng, mapping |-> m1], mapping_config)

\* mappings[resource.identifier] = mapping
put_mapping(ms, mapping) ==
    IF \E i \in DOMAIN ms : ms[i].resource.identifier = mapping.resource.identifier
    THEN [i \in DOMAIN ms |->
             IF ms[i].resource.identifier = mapping.resource.identifier
             THEN mapping ELSE ms[i]]
    ELSE Append(ms, mapping)

\* CMSDData.get_resource
get_resource(data, resource_id) ==
    data.resources[CHOOSE i \in DOMAIN data.resources :
                     data.resources[i].identifier = resource_id]

NoPlacement ==
    [layout_element_id |-> "", position |-> [x |-> 0, y |-> 0, z |-> 0],
     rotation |-> [present |-> FALSE, angle |-> 0, axis_x |-> 0, axis_y |-> 0, axis_z |-> 0]]

\* the loop of MappingEngine.map_cmsd_data; st is [engine, mappings]
RECURSIVE map_layout_objects(_, _, _, _, _)
map_layout_objects(rules, naming, data, los, st) ==
    IF los = <<>> THEN st
    ELSE LET layout_obj == Head(los)
             rest == Tail(los)
         IN IF layout_obj.associated_resource_id \notin resource_ids(data)
            THEN map_layout_objects(rules, naming, data, rest, st)
            ELSE LET resource == get_resource(data, layout_obj.associated_resource_id)
                     has_pl == has_placement(data, layout_obj.identifier)
                     placement == IF has_pl THEN get_placement(data, layout_obj.identifier)
                                  ELSE NoPlacement
                 IN IF ~has_mapping_config(rules, lower(resource.resource_type))
                    THEN map_layout_objects(rules, naming, data, rest, st)
                    ELSE LET r == create_object_mapping(rules, naming, st.engine, resource,
                                                        has_pl, placement)
                         IN map_layout_objects(rules, naming, data, rest,
                               [engine |-> r.engine,
                                mappings |-> put_mapping(st.mappings, r.mapping)])

\* MappingEngine.map_cmsd_data: the engine afterwards and the mappings returned
map_cmsd_data(rules, naming, eng, data) ==
    map_layout_objects(rules, naming, data, data.layout_objects,
                       [engine |-> eng, mappings |-> <<>>])

\* the configured properties of a rule whose conversion raises for a resource:
\* nothing between _convert_property_value and the caller of map_cmsd_data
\* catches the exception
raising_properties(resource, mapping_config) ==
    {k \in DOMAIN mapping_config.properties :
        LET prop_config == mapping_config.properties[k]
        IN /\ has_property(resource, prop_config.xml_name)
           /\ prop_config.special_handler = ""
           /\ convert_property_value(get_property(resource, prop_config.xml_name),
                                     prop_config.data_type, prop_config.unit_conversion)
                = OverflowError}

\* the layout objects at which map_cmsd_data raises
raising_objects(rules, data) ==
    {i \in DOMAIN data.layout_objects :
        /\ data.layout_objects[i].associated_resource_id \in resource_ids(data)
        /\ LET resource == get_resource(data, data.layout_objects[i].associated_resource_id)
           IN /\ has_mapping_config(rules, lower(resource.resource_type))
              /\ raising_properties(resource,
                     find_mapping_config(rules, lower(resource.resource_type))) # {}}

map_raises(rules, data) == raising_objects(rules, data) # {}

\* the engine that a call of map_cmsd_data leaves when it raises: the layout
\* objects before the raising one are mapped, and the properties of the raising
\* one that come before the raising property
engine_at_raise(rules, naming, eng, data) ==
    LET raising == raising_objects(rules, data)
        i == CHOOSE x \in raising : \A y \in raising : x <= y
        before == map_layout_objects(rules, naming, data, SubSeq(data.layout_objects, 1, i - 1),
                                     [engine |-> eng, mappings |-> <<>>])
        layout_obj == data.layout_objects[i]
        resource == get_resource(data, layout_obj.associated_resource_id)
        mapping_config == find_mapping_config(rules, lower(resource.resource_type))
        props == raising_properties(resource, mapping_config)
        k == CHOOSE x \in props : \A y \in props : x <= y
        has_pl == has_placement(data, layout_obj.identifier)
        m1 == map_basic_properties(naming, new_mapping(resource, mapping_config), has_pl,
                                   IF has_pl THEN get_placement(data, layout_obj.identifier)
                                   ELSE NoPlacement)
    IN map_configured_properties([engine |-> before.engine, mapping |-> m1],
                                 SubSeq(mapping_config.properties, 1, k - 1)).engine

(***************************************************************************)
(* Plant Simulation interface (plantsim_interface.py).                     *)
(*                                                                         *)
(* A backend call either returns or raises; which calls raise is the       *)
(* input `fails`, a set of call tags: "resolve" (the template object),     *)
(* "derive", "mu_derive" (derive of a material unit), and the name of a    *)
(* property for the assignment of that property.  Every call is appended   *)
(* to the log of calls.                                                    *)
(*                                                                         *)
(* The state threaded through one object's creation is the record cs:      *)
(*   mapping, material_units, stats, ops, raised (an exception is          *)
(*   propagating).                                                         *)
(***************************************************************************)
Op(op, rid, arg, name, ok) == [op |-> op, rid |-> rid, arg |-> arg, name |-> name, ok |-> ok]

log_op(cs, op) == [cs EXCEPT !.ops = Append(@, op)]

\* self.error_handling.get(f"on_{error_type}_error", "warn_and_continue")
error_config(eh, error_type) ==
    CASE error_type = "creation" -> eh.creation
      [] error_type = "property" -> eh.property
      [] error_type = "connection" -> eh.connection
      [] OTHER -> "warn_and_continue"

\* PlantSimInterface._handle_error with a mapping
handle_error(cs, eh, error_type, message) ==
    [cs EXCEPT !.stats.errors = @ + 1,
               !.mapping = mapping_add_error(@, message),
               !.raised = (error_config(eh, error_type) = "error_and_stop")]

\* PlantSimInterface._get_or_create_material_unit and _handle_material_unit_property
handle_material_unit_property(cs, rid, prop, fails) ==
    LET mu_name == prop.value.s
        known == mu_name \in Range(cs.material_units)
        created == ~known /\ "mu_derive" \notin fails
        c1 == IF known THEN cs
              ELSE log_op(cs, Op("mu_derive", rid, mu_name, <<>>, created))
        c2 == IF created THEN [c1 EXCEPT !.material_units = Append(@, mu_name)] ELSE c1
    IN IF known \/ created
       THEN LET c3 == log_op(c2, Op("set", rid, prop.name, <<>>, prop.name \notin fails))
            IN IF prop.name \in fails
               THEN [c3 EXCEPT !.mapping =
                        mapping_add_error(@, Msg("error_assigning_material_unit", mu_name, ""))]
               ELSE c3
       ELSE [c2 EXCEPT !.mapping =
                mapping_add_error(@, Msg("failed_to_create_material_unit", mu_name, ""))]

\* PlantSimInterface._set_single_property; raised is set where the code raises
set_single_property(cs, rid, prop, fails) ==
    IF prop.data_type = "material_unit" THEN handle_material_unit_property(cs, rid, prop, fails)
    ELSE IF prop.data_type = "special" THEN cs
    ELSE IF prop.data_type = "list" /\ prop.name = "_3D.Rotation"
    THEN log_op(cs, Op("set", rid, prop.name, <<>>, prop.name \notin fails))
    ELSE IF prop.data_type = "list" /\ prop.value.t # "list"
    THEN [cs EXCEPT !.mapping = mapping_add_warning(@, Msg("expected_list", prop.name, ""))]
    ELSE [log_op(cs, Op("set", rid, prop.name, <<>>, prop.name \notin fails))
             EXCEPT !.raised = (prop.name \in fails)]

\* the loop body of PlantSimInterface._set_object_properties
set_object_property(cs, eh, rid, prop, fails) ==
    IF lower(prop.name) = "name" THEN cs
    ELSE LET c1 == set_single_property(cs, rid, prop, fails)
         IN IF c1.raised
            THEN handle_error([c1 EXCEPT !.raised = FALSE], eh, "property",
                              Msg("failed_to_set_property", prop.name, ""))
            ELSE c1

\* PlantSimInterface._set_object_properties: stops where an exception propagates
RECURSIVE set_object_properties(_, _, _, _, _)
set_object_properties(cs, eh, rid, props, fails) ==
    IF props = <<>> \/ cs.raised THEN cs
    ELSE set_object_properties(set_object_property(cs, eh, rid, Head(props), fails),
                               eh, rid, Tail(props), fails)

\* PlantSimInterface._get_object_name
get_object_name(naming, mapping) ==
    LET props == mapping.properties
    IN IF \E i \in DOMAIN props : lower(props[i].name) = "name"
       THEN props[CHOOSE i \in DOMAIN props :
                    /\ lower(props[i].name) = "name"
                    /\ \A j \in 1..(i - 1) : lower(props[j].name) # "name"].value.cs
       ELSE sanitize_name(naming, mapping.resource.name)

\* PlantSimInterface._create_single_object: [cs, created, obj_name]
create_single_object(cs, eh, naming, fails) ==
    LET mapping == cs.mapping
        rid == mapping.resource.identifier
        none(c) == [cs |-> c, created |-> FALSE, obj_name |-> <<>>]
    IN IF mapping.template = ""
       THEN none([cs EXCEPT !.mapping = mapping_add_error(@, Msg("no_template", "", ""))])
       ELSE LET c1 == log_op(cs, Op("resolve", rid, mapping.template, <<>>, "resolve" \notin fails))
            IN IF "resolve" \in fails
               THEN none([c1 EXCEPT !.mapping =
                             mapping_add_error(@, Msg("template_not_found", mapping.template, ""))])
               ELSE LET obj_name == get_object_name(naming, mapping)
                        c2 == log_op(c1, Op("derive", rid, mapping.template, obj_name,
                                            "derive" \notin fails))
                    IN IF "derive" \in fails
                       THEN none([c2 EXCEPT !.mapping =
                                     mapping_add_error(@, Msg("failed_to_create_object", "", ""))])
                       ELSE LET c3 == set_object_properties(c2, eh, rid,
                                                            mapping.properties, fails)
                            IN IF c3.raised
                               THEN none([c3 EXCEPT
                                            !.raised = FALSE,
                                            !.mapping = mapping_add_error(@,
                                                Msg("failed_to_create_object", "", ""))])
                               ELSE [cs |-> c3, created |-> TRUE, obj_name |-> obj_name]

\* created_objects[resource_id] = obj
put_object(objects, resource_id, obj_name) ==
    LET entry == [resource_id |-> resource_id, obj_name |-> obj_name]
    IN IF \E i \in DOMAIN objects : objects[i].resource_id = resource_id
       THEN [i \in DOMAIN objects |->
                IF objects[i].resource_id = resource_id THEN entry ELSE objects[i]]
       ELSE Append(objects, entry)

\* a slip: objects_created counts every mapping that was tried
create_object_counts_attempts(cs, local, registry, eh, naming, fails) ==
    LET r == create_single_object(cs, eh, naming, fails)
        rid == cs.mapping.resource.identifier
    IN IF r.cs.raised
       THEN [cs |-> handle_error([r.cs EXCEPT !.raised = FALSE], eh, "creation",
                                 Msg("failed_to_create_object", rid, "")),
             created_objects |-> local, registry |-> registry]
       ELSE IF r.created
       THEN [cs |-> [r.cs EXCEPT !.stats.objects_created = @ + 1],
             created_objects |-> put_object(local, rid, r.obj_name),
             registry |-> put_object(registry, rid, r.obj_name)]
       ELSE [cs |-> [r.cs EXCEPT !.stats.objects_created = @ + 1],
             created_objects |-> local, registry |-> registry]

\* the loop body of PlantSimInterface.create_objects, for one mapping:
\* [cs, created_objects (the local dict), registry (self.created_objects)]
create_object(cs, local, registry, eh, naming, fails) ==
    LET r == create_single_object(cs, eh, naming, fails)
        rid == cs.mapping.resource.identifier
    IN IF r.cs.raised
       THEN [cs |-> handle_error([r.cs EXCEPT !.raised = FALSE], eh, "creation",
                                 Msg("failed_to_create_object", rid, "")),
             created_objects |-> local, registry |-> registry]
       ELSE IF r.created
       THEN [cs |-> [r.cs EXCEPT !.stats.objects_created = @ + 1],
             created_objects |-> put_object(local, rid, r.obj_name),
             registry |-> put_object(registry, rid, r.obj_name)]
       ELSE [cs |-> r.cs, created_objects |-> local, registry |-> registry]

object_ids(objects) == {objects[i].resource_id : i \in DOMAIN objects}

\* a slip: only the source endpoint is looked up in the registry
create_single_connection_source_only(registry, log, from_resource_id, to_resource_id, fail) ==
    IF from_resource_id \notin object_ids(registry) THEN [ops |-> log, success |-> FALSE]
    ELSE [ops |-> Append(log, Op("connect", from_resource_id, to_resource_id, <<>>, ~fail)),
          success |-> ~fail]

\* PlantSimInterface._create_single_connection: [ops, success]
create_single_connection(registry, log, from_resource_id, to_resource_id, fail) ==
    IF from_resource_id \notin object_ids(registry) THEN [ops |-> log, success |-> FALSE]
    ELSE IF to_resource_id \notin object_ids(registry) THEN [ops |-> log, success |-> FALSE]
    ELSE [ops |-> Append(log, Op("connect", from_resource_id, to_resource_id, <<>>, ~fail)),
          success |-> ~fail]

\* a slip: only the sources of the connections count as connected
validate_created_objects_sources_only(registry, connections) ==
    LET connected_objects == {connections[i][1] : i \in DOMAIN connections}
        ids == [i \in DOMAIN registry |-> registry[i].resource_id]
    IN [errors |-> <<>>,
        warnings |-> SelectSeq(ids, LAMBDA rid : rid \notin connected_objects)]

\* PlantSimInterface.validate_created_objects
validate_created_objects(registry, connections) ==
    LET connected_objects == UNION {{connections[i][1], connections[i][2]} : i \in DOMAIN connections}
        ids == [i \in DOMAIN registry |-> registry[i].resource_id]
    IN [errors |-> <<>>,
        warnings |-> SelectSeq(ids, LAMBDA rid : rid \notin connected_objects)]

(***************************************************************************)
(* Documents given to the pipeline                                         *)
(***************************************************************************)
Prop(name, value, unit) == [name |-> name, value |-> value, unit |-> unit]

Res(identifier, resource_type, name, properties) ==
    [identifier |-> identifier, resource_type |-> resource_type, name |-> name,
     properties |-> properties]

LO(identifier, associated_resource_id) ==
    [identifier |-> identifier, associated_resource_id |-> associated_resource_id]

NoRotation == [present |-> FALSE, angle |-> 0, axis_x |-> 0, axis_y |-> 0, axis_z |-> 0]
Rot(angle) == [present |-> TRUE, angle |-> angle, axis_x |-> 0, axis_y |-> 0, axis_z |-> 1]

Place(layout_element_id, x, y, rotation) ==
    [layout_element_id |-> layout_element_id, position |-> [x |-> x, y |-> y, z |-> 0],
     rotation |-> rotation]

Conn(identifier, from_resource_id, to_resource_id) ==
    [identifier |-> identifier, from_resource_id |-> from_resource_id,
     to_resource_id |-> to_resource_id]

NoLayout == [present |-> FALSE, placements |-> <<>>]
Layout(placements) == [present |-> TRUE, placements |-> placements]

Doc(document_identifier, resources, layout_objects, layout, connections) ==
    [document_identifier |-> document_identifier, resources |-> resources,
     layout_objects |-> layout_objects, layout |-> layout, connections |-> connections]

EmptyDoc == Doc("", <<>>, <<>>, NoLayout, <<>>)

SourceA == Res("A", "Source", <<"B", "1">>, <<Prop("ProductType", "P1", "")>>)
StationB == Res("B", "Station", <<"1", "a">>, <<Prop("ProcessingTime", "5", "minute")>>)
MachineC == Res("C", "MACHINE", <<"a", " ", "B">>, <<Prop("processingtime", "2", "")>>)
RobotD == Res("D", "Robot", <<"a">>, <<>>)
BufferE == Res("E", "Buffer", <<"B">>, <<>>)
PalletH == Res("H", "Pallet", <<"a">>,
               <<Prop("Dimensions", "1,2,3", ""), Prop("Color", "red", "")>>)

\* a line Source -> Station -> Machine, every resource placed but the last
DocLine ==
    Doc("doc1", <<SourceA, StationB, MachineC>>,
        <<LO("L1", "A"), LO("L2", "B"), LO("L3", "C")>>,
        Layout(<<Place("L1", 0, 0, Rot(90)), Place("L2", 2, 0, NoRotation)>>),
        <<Conn("c1", "A", "B"), Conn("c2", "B", "C")>>)

\* a resource type without a rule, a rule without a template, a resource without
\* a layout object, a repeated connection
DocMixed ==
    Doc("doc2", <<StationB, RobotD, BufferE, MachineC>>,
        <<LO("L1", "B"), LO("L2", "D"), LO("L3", "E")>>,
        Layout(<<Place("L1", 5, 5, NoRotation), Place("L3", 0, 2, NoRotation)>>),
        <<Conn("c1", "B", "D"), Conn("c2", "B", "B"), Conn("c2", "B", "B")>>)

\* documents the validator rejects
DocNoResources == Doc("doc3", <<>>, <<>>, NoLayout, <<>>)
DocUnknownResource ==
    Doc("doc4", <<StationB>>, <<LO("L1", "B"), LO("L2", "X")>>, NoLayout,
        <<Conn("c1", "B", "X")>>)

\* two resources with the same display name, the second without a placement
DocTwins ==
    Doc("doc5", <<Res("F", "Station", <<"a">>, <<>>), Res("G", "Machine", <<"a">>, <<>>)>>, <<LO("L1", "F"), LO("L2", "G")>>,
        Layout(<<Place("L1", 1, 1, NoRotation)>>), <<Conn("c1", "F", "G")>>)

\* a placed resource whose rule declares a property of data type "list"
DocPallet ==
    Doc("doc6", <<PalletH>>, <<LO("L1", "H")>>,
        Layout(<<Place("L1", 1, 2, NoRotation)>>), <<>>)

PipelineDocs ==
    {DocLine, DocMixed, DocNoResources, DocUnknownResource, DocTwins, DocPallet}

Policies == {"error_and_stop", "warn_and_continue", "ignore"}
ErrorHandlings == [creation : Policies, property : Policies, connection : Policies]
\* _init_plantsim_objects: "com" when the interface was given a com_object,
\* "native" inside Plant Simulation, "mock" otherwise
Backends == {"com", "native", "mock"}

(***************************************************************************)
(* Spec: ASMGInterpreter.process_xml_file                                  *)
(***************************************************************************)
\* PlantSimInterface.__init__
new_interface ==
    [created_objects |-> <<>>, created_connections |-> <<>>, material_units |-> <<>>,
     stats |-> [objects_created |-> 0, connections_created |-> 0, errors |-> 0,
                warnings |-> 0]]

(***************************************************************************)
(* XMLParser (xml_parser.py)                                               *)
(*                                                                         *)
(* An XML element is a record of the texts that the configured xpaths      *)
(* select below it; "" is the text of a field whose element is missing or  *)
(* empty.  found tells whether the element itself exists.  A numeric field *)
(* is NoText, BadText (text that float() rejects) or NumText(n).           *)
(***************************************************************************)
NoText == [kind |-> "none", n |-> 0]
BadText == [kind |-> "bad", n |-> 0]
NumText(n) == [kind |-> "num", n |-> n]

get_text_by_xpath(elem, field) ==
    IF elem.found THEN elem[field] ELSE ""

\* None is [found |-> FALSE]
get_float_by_xpath(elem, field) ==
    IF elem.found /\ elem[field].kind = "num"
    THEN [found |-> TRUE, n |-> elem[field].n]
    ELSE [found |-> FALSE, n |-> 0]

\* x or d, for x an optional float
float_or(x, d) == IF x.found /\ x.n # 0 THEN x.n ELSE d

\* {e.key: e for e in entries}, in insertion order
put_entry(d, e, key) ==
    IF \E i \in DOMAIN d : d[i][key] = e[key]
    THEN [i \in DOMAIN d |-> IF d[i][key] = e[key] THEN e ELSE d[i]]
    ELSE Append(d, e)

RECURSIVE dict_by(_, _)
dict_by(entries, key) ==
    IF entries = <<>> THEN <<>>
    ELSE put_entry(dict_by(SubSeq(entries, 1, Len(entries) - 1), key),
                   entries[Len(entries)], key)

\* header_data, the dict of the header fields that have a text
parse_header(root) ==
    LET value == get_text_by_xpath(root.header, "document_identifier")
    IN IF value # "" THEN <<[field |-> "document_identifier", value |-> value]>> ELSE <<>>

header_get(header_data, field, default) ==
    IF \E i \in DOMAIN header_data : header_data[i].field = field
    THEN header_data[CHOOSE i \in DOMAIN header_data : header_data[i].field = field].value
    ELSE default

parse_properties(parent_elem) ==
    LET named == SelectSeq(parent_elem.properties,
                           LAMBDA e : /\ get_text_by_xpath(e, "name") # ""
                                      /\ get_text_by_xpath(e, "value") # "")
    IN dict_by([i \in DOMAIN named |->
                   Prop(get_text_by_xpath(named[i], "name"),
                        get_text_by_xpath(named[i], "value"),
                        get_text_by_xpath(named[i], "unit"))], "name")

\* Resource(...), with its connections list; None is [some |-> FALSE]
parse_single_resource(res_elem) ==
    LET identifier == get_text_by_xpath(res_elem, "identifier")
    IN IF identifier = ""
       THEN [some |-> FALSE]
       ELSE [some |-> TRUE,
             resource |-> [identifier |-> identifier,
                           resource_type |-> get_text_by_xpath(res_elem, "resource_type"),
                           name |-> get_text_by_xpath(res_elem, "name"),
                           properties |-> parse_properties(res_elem),
                           connections |-> <<>>]]

parse_resources(root) ==
    LET parsed == [i \in DOMAIN root.resources |-> parse_single_resource(root.resources[i])]
        kept == SelectSeq(parsed, LAMBDA r : r.some)
    IN [i \in DOMAIN kept |-> kept[i].resource]

\* f"conn_{from_resource_id}_to_{to_resource_id}"
default_connection_identifier(from_resource_id, to_resource_id) ==
    CASE from_resource_id = "A" /\ to_resource_id = "A" -> "conn_A_to_A"
      [] from_resource_id = "A" /\ to_resource_id = "B" -> "conn_A_to_B"
      [] from_resource_id = "B" /\ to_resource_id = "A" -> "conn_B_to_A"
      [] from_resource_id = "B" /\ to_resource_id = "B" -> "conn_B_to_B"

\* the connections nested in one resource element
resource_connections(res_elem) ==
    LET from_resource_id == get_text_by_xpath(res_elem, "identifier")
        targeted == SelectSeq(res_elem.connections,
                              LAMBDA e : get_text_by_xpath(e, "to_resource_id") # "")
    IN IF from_resource_id = ""
       THEN <<>>
       ELSE [i \in DOMAIN targeted |->
                LET identifier == get_text_by_xpath(targeted[i], "identifier")
                    to_resource_id == get_text_by_xpath(targeted[i], "to_resource_id")
                IN Conn(IF identifier # "" THEN identifier
                        ELSE default_connection_identifier(from_resource_id, to_resource_id),
                        from_resource_id, to_resource_id)]

RECURSIVE connections_of(_)
connections_of(res_elems) ==
    IF res_elems = <<>> THEN <<>>
    ELSE connections_of(SubSeq(res_elems, 1, Len(res_elems) - 1))
         \o resource_connections(res_elems[Len(res_elems)])

parse_connections(root) == connections_of(root.resources)

parse_layout_objects(root) ==
    LET kept == SelectSeq(root.layout_objects,
                          LAMBDA e : /\ get_text_by_xpath(e, "identifier") # ""
                                     /\ get_text_by_xpath(e, "associated_resource_id") # "")
    IN [i \in DOMAIN kept |->
           LO(get_text_by_xpath(kept[i], "identifier"),
              get_text_by_xpath(kept[i], "associated_resource_id"))]

parse_placements(parent_elem) ==
    LET kept == SelectSeq(parent_elem.placements,
                          LAMBDA e : /\ get_text_by_xpath(e, "layout_element_id") # ""
                                     /\ get_float_by_xpath(e, "position_x").found
                                     /\ get_float_by_xpath(e, "position_y").found)
    IN dict_by([i \in DOMAIN kept |->
                   LET rot_angle == get_float_by_xpath(kept[i], "rotation_angle")
                   IN [layout_element_id |-> get_text_by_xpath(kept[i], "layout_element_id"),
                       position |-> [x |-> get_float_by_xpath(kept[i], "position_x").n,
                                     y |-> get_float_by_xpath(kept[i], "position_y").n,
                                     z |-> float_or(get_float_by_xpath(kept[i], "position_z"), 0)],
                       rotation |->
                           IF rot_angle.found
                           THEN [present |-> TRUE, angle |-> rot_angle.n,
                                 axis_x |-> float_or(get_float_by_xpath(kept[i], "rotation_axis_x"), 0),
                                 axis_y |-> float_or(get_float_by_xpath(kept[i], "rotation_axis_y"), 0),
                                 axis_z |-> float_or(get_float_by_xpath(kept[i], "rotation_axis_z"), 1)]
                           ELSE NoRotation]], "layout_element_id")

parse_layout(root) ==
    IF root.layout.found THEN Layout(parse_placements(root.layout)) ELSE NoLayout

update_resource_connections(data) ==
    [data EXCEPT !.resources =
        [i \in DOMAIN data.resources |->
            LET outgoing == SelectSeq(data.connections,
                    LAMBDA c : c.from_resource_id = data.resources[i].identifier)
            IN [data.resources[i] EXCEPT
                   !.connections = [j \in DOMAIN outgoing |-> outgoing[j].to_resource_id]]]]

parse_xml(root) ==
    LET header_data == parse_header(root)
    IN update_resource_connections(
           Doc(header_get(header_data, "document_identifier", ""),
               dict_by(parse_resources(root), "identifier"),
               dict_by(parse_layout_objects(root), "identifier"),
               parse_layout(root),
               parse_connections(root)))

NoHeader == [found |-> FALSE, document_identifier |-> ""]
NoLayoutElement == [found |-> FALSE, placements |-> <<>>]
XmlRoot(well_formed, header, resources, layout_objects, layout) ==
    [well_formed |-> well_formed, header |-> header, resources |-> resources,
     layout_objects |-> layout_objects, layout |-> layout]

InitParseVars ==
    /\ x_pc = "idle"
    /\ x_root = XmlRoot(TRUE, NoHeader, <<>>, <<>>, NoLayoutElement)
    /\ x_result = EmptyDoc

InitPollVars ==
    /\ w_pc = "idle"
    /\ w_call = "load_model"
    /\ w_path_exists = TRUE
    /\ w_timeout = 1
    /\ w_elapsed = 0
    /\ w_probes = <<>>
    /\ w_waited = "none"
    /\ w_result = "none"

InitMapVars ==
    /\ m_pc = "idle"
    /\ m_naming = DefaultNaming
    /\ m_data = EmptyDoc
    /\ m_engine = new_engine
    /\ m_mappings = <<>>

InitPipelineVars ==
    /\ pc = "start"
    /\ stages = <<>>
    /\ returned = "none"
    /\ faults = 0
    /\ cmsd_data = EmptyDoc
    /\ validation_result = new_validation_result
    /\ engine = new_engine
    /\ mappings = <<>>
    /\ oi = 1
    /\ created_objects = <<>>
    /\ interface = new_interface
    /\ ci = 1
    /\ created_connections = <<>>
    /\ ops = <<>>
    /\ issues = [errors |-> <<>>, warnings |-> <<>>]

Init ==
    /\ InitSanitizeVars
    /\ v_pc = "idle" /\ v_data = EmptyDoc /\ v_result = new_validation_result
    /\ InitMapVars
    /\ InitPipelineVars
    /\ InitParseVars
    /\ InitPollVars
    /\ error_handling \in ErrorHandlings
    /\ backend \in Backends

\* the calls of one mapping that the active backend can fail
call_tags(mapping) ==
    {"resolve", "derive", "mu_derive"} \cup {mapping.properties[i].name : i \in DOMAIN mapping.properties}

can_fail(b, mapping) ==
    CASE b = "mock" -> {}
      [] b = "com" -> call_tags(mapping) \ {"resolve"}
      [] OTHER -> call_tags(mapping)

op_tag(op) == IF op.op = "set" THEN op.arg ELSE op.op

failed_tags(before, after) ==
    {op_tag(after[i]) : i \in {j \in DOMAIN after : j > Len(before) /\ ~after[j].ok}}

\* Step 1: self.xml_parser.parse_file(xml_file_path) returns a document
ParseFile ==
    /\ pc = "start"
    /\ \E d \in PipelineDocs : cmsd_data' = d
    /\ stages' = Append(stages, "parse")
    /\ pc' = "parsed"
    /\ UNCHANGED <<s_vars, v_vars, m_vars, x_vars, w_vars, returned, error_handling, backend, faults, validation_result, engine,
                   mappings, oi, created_objects, interface, ci, created_connections,
                   ops, issues>>

\* Step 1: parse_file raises XMLParsingError, caught by process_xml_file
ParseFileFails ==
    /\ pc = "start"
    /\ stages' = Append(stages, "parse")
    /\ returned' = "false"
    /\ pc' = "done"
    /\ UNCHANGED <<s_vars, v_vars, m_vars, x_vars, w_vars, error_handling, backend, faults, cmsd_data, validation_result, engine,
                   mappings, oi, created_objects, interface, ci, created_connections,
                   ops, issues>>

\* Step 2: validation_result = DataValidator.validate(cmsd_data)
ValidateData ==
    /\ pc = "parsed"
    /\ validation_result' = validate(cmsd_data)
    /\ stages' = Append(stages, "validate")
    /\ pc' = "validated"
    /\ UNCHANGED <<s_vars, v_vars, m_vars, x_vars, w_vars, returned, error_handling, backend, faults, cmsd_data, engine,
                   mappings, oi, created_objects, interface, ci, created_connections,
                   ops, issues>>

\* if not validation_result.is_valid: return False
ValidationFailed ==
    /\ pc = "validated"
    /\ ~validation_result.is_valid
    /\ returned' = "false"
    /\ pc' = "done"
    /\ UNCHANGED <<s_vars, v_vars, m_vars, x_vars, w_vars, stages, error_handling, backend, faults, cmsd_data, validation_result,
                   engine, mappings, oi, created_objects, interface, ci,
                   created_connections, ops, issues>>

\* a slip: the gate on validation_result.is_valid is missing
CreateMappingsNoGate ==
    /\ pc = "validated"
    /\ LET r == map_cmsd_data(resource_mappings, DefaultNaming, engine, cmsd_data)
       IN /\ engine' = r.engine
          /\ mappings' = r.mappings
    /\ stages' = Append(stages, "map")
    /\ pc' = "mapped"
    /\ UNCHANGED <<s_vars, v_vars, m_vars, x_vars, w_vars, returned, error_handling, backend, faults, cmsd_data,
                   validation_result, oi, created_objects, interface, ci,
                   created_connections, ops, issues>>

\* Step 3: mappings = self.mapping_engine.map_cmsd_data(cmsd_data)
CreateMappings ==
    /\ pc = "validated"
    /\ validation_result.is_valid
    /\ LET r == map_cmsd_data(resource_mappings, DefaultNaming, engine, cmsd_data)
       IN /\ engine' = r.engine
          /\ mappings' = r.mappings
    /\ stages' = Append(stages, "map")
    /\ pc' = "mapped"
    /\ UNCHANGED <<s_vars, v_vars, m_vars, x_vars, w_vars, returned, error_handling, backend, faults, cmsd_data, validation_result,
                   oi, created_objects, interface, ci, created_connections, ops, issues>>

\* Step 4: create_objects(mappings) is entered
CreateObjectsCall ==
    /\ pc = "mapped"
    /\ created_objects' = <<>>
    /\ oi' = 1
    /\ stages' = Append(stages, "create_objects")
    /\ pc' = "create_objects"
    /\ UNCHANGED <<s_vars, v_vars, m_vars, x_vars, w_vars, returned, error_handling, backend, faults, cmsd_data, validation_result,
                   engine, mappings, interface, ci, created_connections, ops, issues>>

\* create_objects: one iteration of its loop, the mapping at oi
CreateObject ==
    /\ pc = "create_objects"
    /\ oi <= Len(mappings)
    /\ \E fails \in SUBSET can_fail(backend, mappings[oi]) :
          LET cs == [mapping |-> mappings[oi], material_units |-> interface.material_units,
                     stats |-> interface.stats, ops |-> ops, raised |-> FALSE]
              r == create_object(cs, created_objects, interface.created_objects,
                                 error_handling, DefaultNaming, fails)
          IN /\ Cardinality(fails) <= MaxFaults - faults
             /\ failed_tags(ops, r.cs.ops) = fails
             /\ faults' = faults + Cardinality(fails)
             /\ mappings' = [mappings EXCEPT ![oi] = r.cs.mapping]
             /\ interface' = [interface EXCEPT !.created_objects = r.registry,
                                               !.material_units = r.cs.material_units,
                                               !.stats = r.cs.stats]
             /\ created_objects' = r.created_objects
             /\ ops' = r.cs.ops
             /\ IF r.cs.raised
                THEN pc' = "done" /\ returned' = "false" /\ oi' = oi
                ELSE pc' = pc /\ returned' = returned /\ oi' = oi + 1
    /\ UNCHANGED <<s_vars, v_vars, m_vars, x_vars, w_vars, stages, error_handling, backend, cmsd_data, validation_result, engine,
                   ci, created_connections, issues>>

\* a slip: create_connections is entered while create_objects is still looping
CreateConnectionsCallEarly ==
    /\ pc = "create_objects"
    /\ created_connections' = <<>>
    /\ ci' = 1
    /\ stages' = Append(stages, "create_connections")
    /\ pc' = "create_connections"
    /\ UNCHANGED <<s_vars, v_vars, m_vars, x_vars, w_vars, returned, error_handling, backend, faults, cmsd_data,
                   validation_result, engine, mappings, oi, created_objects, interface,
                   ops, issues>>

\* create_objects returns; Step 5: create_connections(cmsd_data) is entered
CreateConnectionsCall ==
    /\ pc = "create_objects"
    /\ oi > Len(mappings)
    /\ created_connections' = <<>>
    /\ ci' = 1
    /\ stages' = Append(stages, "create_connections")
    /\ pc' = "create_connections"
    /\ UNCHANGED <<s_vars, v_vars, m_vars, x_vars, w_vars, returned, error_handling, backend, faults, cmsd_data, validation_result,
                   engine, mappings, oi, created_objects, interface, ops, issues>>

\* a slip: the pair is put in front of the list instead of appended
CreateConnectionPrepend ==
    /\ pc = "create_connections"
    /\ ci <= Len(cmsd_data.connections)
    /\ \E fail \in BOOLEAN :
          LET connection == cmsd_data.connections[ci]
              r == create_single_connection(interface.created_objects, ops,
                       connection.from_resource_id, connection.to_resource_id, fail)
          IN /\ fail => (backend # "mock" /\ faults < MaxFaults /\ r.ops # ops)
             /\ faults' = IF fail THEN faults + 1 ELSE faults
             /\ ops' = r.ops
             /\ IF r.success
                THEN /\ created_connections' =
                           <<<<connection.from_resource_id, connection.to_resource_id>>>>
                              \o created_connections
                     /\ interface' = [interface EXCEPT !.stats.connections_created = @ + 1]
                ELSE UNCHANGED <<created_connections, interface>>
    /\ ci' = ci + 1
    /\ UNCHANGED <<s_vars, v_vars, m_vars, x_vars, w_vars, pc, stages, returned, error_handling, backend, cmsd_data,
                   validation_result, engine, mappings, oi, created_objects, issues>>

\* create_connections: one iteration of its loop, the connection at ci
CreateConnection ==
    /\ pc = "create_connections"
    /\ ci <= Len(cmsd_data.connections)
    /\ \E fail \in BOOLEAN :
          LET connection == cmsd_data.connections[ci]
              r == create_single_connection(interface.created_objects, ops,
                       connection.from_resource_id, connection.to_resource_id, fail)
          IN /\ fail => (backend # "mock" /\ faults < MaxFaults /\ r.ops # ops)
             /\ faults' = IF fail THEN faults + 1 ELSE faults
             /\ ops' = r.ops
             /\ IF r.success
                THEN /\ created_connections' =
                           Append(created_connections,
                                  <<connection.from_resource_id, connection.to_resource_id>>)
                     /\ interface' = [interface EXCEPT !.stats.connections_created = @ + 1]
                ELSE UNCHANGED <<created_connections, interface>>
    /\ ci' = ci + 1
    /\ UNCHANGED <<s_vars, v_vars, m_vars, x_vars, w_vars, pc, stages, returned, error_handling, backend, cmsd_data,
                   validation_result, engine, mappings, oi, created_objects, issues>>

\* a slip: create_connections consumes the document's connection list
CreateConnectionsReturnConsumes ==
    /\ pc = "create_connections"
    /\ ci > Len(cmsd_data.connections)
    /\ interface' = [interface EXCEPT !.created_connections = created_connections]
    /\ cmsd_data' = [cmsd_data EXCEPT !.connections = <<>>]
    /\ pc' = "connections_created"
    /\ UNCHANGED <<s_vars, v_vars, m_vars, x_vars, w_vars, stages, returned, error_handling, backend, faults,
                   validation_result, engine, mappings, oi, created_objects, ci,
                   created_connections, ops, issues>>

\* create_connections: self.created_connections = created_connections; return
CreateConnectionsReturn ==
    /\ pc = "create_connections"
    /\ ci > Len(cmsd_data.connections)
    /\ interface' = [interface EXCEPT !.created_connections = created_connections]
    /\ pc' = "connections_created"
    /\ UNCHANGED <<s_vars, v_vars, m_vars, x_vars, w_vars, stages, returned, error_handling, backend, faults, cmsd_data,
                   validation_result, engine, mappings, oi, created_objects, ci,
                   created_connections, ops, issues>>

\* Step 6: _print_final_summary calls validate_created_objects; return True
FinalSummary ==
    /\ pc = "connections_created"
    /\ issues' = validate_created_objects(interface.created_objects,
                                          interface.created_connections)
    /\ stages' = Append(stages, "post_validate")
    /\ returned' = "true"
    /\ pc' = "done"
    /\ UNCHANGED <<s_vars, v_vars, m_vars, x_vars, w_vars, error_handling, backend, faults, cmsd_data, validation_result, engine,
                   mappings, oi, created_objects, interface, ci, created_connections, ops>>

Next ==
    \/ ParseFile
    \/ ParseFileFails
    \/ ValidateData
    \/ ValidationFailed
    \/ CreateMappings
    \/ CreateObjectsCall
    \/ CreateObject
    \/ CreateConnectionsCall
    \/ CreateConnection
    \/ CreateConnectionsReturn
    \/ FinalSummary

Spec == Init /\ [][Next]_vars

(***************************************************************************)
(* SpecValidate: DataValidator.validate on bounded documents, and          *)
(* ValidationResult.add_warning on the result                              *)
(***************************************************************************)
RefIds == {"A", "X"}
ConnIds == {"c1", "c2"}
PlainResource(id) == Res(id, "Station", <<"a">>, <<>>)
ResourceLists == {<<>>, <<PlainResource("A")>>, <<PlainResource("A"), PlainResource("B")>>}
LayoutObjectIds == <<"L1", "L2", "L3", "L4">>
LayoutObjectLists ==
    UNION {{[i \in 1..k |-> LO(LayoutObjectIds[i], f[i])] : f \in [1..k -> RefIds]} : k \in 0..MaxLO}
LayoutChoices ==
    {NoLayout, Layout(<<Place("L1", 0, 0, NoRotation)>>), Layout(<<Place("L9", 0, 0, NoRotation)>>)}
ConnectionChoices == {Conn(c, f, t) : c \in ConnIds, f \in RefIds, t \in RefIds}
ConnectionLists == SeqsUpTo(ConnectionChoices, MaxConn)
ValidatorDocs ==
    {Doc(d, rs, los, lay, cs) : d \in {"", "doc1"}, rs \in ResourceLists,
        los \in LayoutObjectLists, lay \in LayoutChoices, cs \in ConnectionLists}

InitValidate ==
    /\ InitSanitizeVars
    /\ InitMapVars
    /\ InitPipelineVars
    /\ InitParseVars
    /\ InitPollVars
    /\ error_handling = [creation |-> "warn_and_continue", property |-> "warn_and_continue",
                         connection |-> "warn_and_continue"]
    /\ backend = "mock"
    /\ v_pc = "input"
    /\ v_data \in ValidatorDocs
    /\ v_result = new_validation_result

\* result = DataValidator.validate(data)
Validate ==
    /\ v_pc = "input"
    /\ v_result' = validate(v_data)
    /\ v_pc' = "validated"
    /\ UNCHANGED <<s_vars, m_vars, p_vars, x_vars, w_vars, v_data>>

\* result.add_warning(...) by the caller, on the returned result
AddWarning ==
    /\ v_pc = "validated"
    /\ Len(v_result.warnings) < Len(validate(v_data).warnings) + MaxExtra
    /\ v_result' = add_warning(v_result, Msg("extra_warning", "", ""))
    /\ UNCHANGED <<s_vars, m_vars, p_vars, x_vars, w_vars, v_pc, v_data>>

NextValidate == Validate \/ AddWarning

SpecValidate == InitValidate /\ [][NextValidate]_vars

(***************************************************************************)
(* SpecSanitize                                                            *)
(***************************************************************************)
InitSanitizeSpec ==
    /\ InitSanitize
    /\ InitMapVars
    /\ InitPipelineVars
    /\ InitParseVars
    /\ InitPollVars
    /\ error_handling = [creation |-> "warn_and_continue", property |-> "warn_and_continue",
                         connection |-> "warn_and_continue"]
    /\ backend = "mock"
    /\ v_pc = "idle" /\ v_data = EmptyDoc /\ v_result = new_validation_result

\* once = sanitize_name(name)
SanitizeFirst ==
    /\ s_pc = "input"
    /\ s_once' = sanitize_name(s_config, s_name)
    /\ s_pc' = "once"
    /\ UNCHANGED <<s_config, s_name, s_twice, v_vars, m_vars, p_vars, x_vars, w_vars>>

\* twice = sanitize_name(once)
SanitizeAgain ==
    /\ s_pc = "once"
    /\ s_twice' = sanitize_name(s_config, s_once)
    /\ s_pc' = "twice"
    /\ UNCHANGED <<s_config, s_name, s_once, v_vars, m_vars, p_vars, x_vars, w_vars>>

NextSanitize == SanitizeFirst \/ SanitizeAgain

SpecSanitize == InitSanitizeSpec /\ [][NextSanitize]_vars

(***************************************************************************)
(* SpecMap: MappingEngine.map_cmsd_data on bounded documents, called twice *)
(* on the same engine                                                      *)
(***************************************************************************)
MaxMapRes == 3
ProductTypes == {"P1", "P2", "P3"}
MapResourceKinds ==
    {[resource_type |-> "Source", name |-> <<"a", " ", "B">>,
      properties |-> <<Prop("ProductType", t, "")>>] : t \in ProductTypes}
    \cup {[resource_type |-> "Conveyor", name |-> <<"1", "a">>, properties |-> <<>>],
          [resource_type |-> "Conveyor", name |-> <<"1", "a">>,
           properties |-> <<Prop("Speed", "5", "")>>],
          [resource_type |-> "Drain", name |-> <<"B">>, properties |-> <<>>],
          [resource_type |-> "Drain", name |-> <<"B">>,
           properties |-> <<Prop("capacity", "2", "")>>]}
MapResourceIds == <<"R1", "R2", "R3", "R4">>

\* a document with one resource and one layout object per kind of ks; the layout
\* objects at the positions in placed have a placement
MapDoc(ks, placed) ==
    LET positions == SelectSeq([i \in DOMAIN ks |-> i], LAMBDA i : i \in placed)
    IN Doc("doc",
           [i \in DOMAIN ks |-> Res(MapResourceIds[i], ks[i].resource_type, ks[i].name,
                                    ks[i].properties)],
           [i \in DOMAIN ks |-> LO(LayoutObjectIds[i], MapResourceIds[i])],
           IF placed = {} THEN NoLayout
           ELSE Layout([j \in DOMAIN positions |->
                           Place(LayoutObjectIds[positions[j]], positions[j], 0, NoRotation)]),
           <<>>)

MapDocs ==
    UNION {{MapDoc(ks, placed) : placed \in SUBSET DOMAIN ks} :
              ks \in SeqsUpTo(MapResourceKinds, MaxMapRes)}

MapNamings ==
    {DefaultNaming,
     [case_handling |-> "upper", invalid_chars |-> <<" ">>, replacement_char |-> <<"_">>,
      max_length |-> DefaultMaxLength]}

InitMap ==
    /\ InitSanitizeVars
    /\ InitPipelineVars
    /\ InitParseVars
    /\ InitPollVars
    /\ error_handling = [creation |-> "warn_and_continue", property |-> "warn_and_continue",
                         connection |-> "warn_and_continue"]
    /\ backend = "mock"
    /\ v_pc = "idle" /\ v_data = EmptyDoc /\ v_result = new_validation_result
    /\ m_pc = "input"
    /\ m_naming \in MapNamings
    /\ m_data \in MapDocs
    /\ m_engine = new_engine
    /\ m_mappings = <<>>

\* mappings = engine.map_cmsd_data(data)
MapDocument ==
    /\ m_pc = "input"
    /\ ~map_raises(resource_mappings, m_data)
    /\ LET r == map_cmsd_data(resource_mappings, m_naming, m_engine, m_data)
       IN /\ m_engine' = r.engine
          /\ m_mappings' = r.mappings
    /\ m_pc' = "mapped"
    /\ UNCHANGED <<m_naming, m_data, s_vars, v_vars, p_vars, x_vars, w_vars>>

\* a second call of map_cmsd_data on the same engine
MapAgain ==
    /\ m_pc = "mapped"
    /\ ~map_raises(resource_mappings, m_data)
    /\ LET r == map_cmsd_data(resource_mappings, m_naming, m_engine, m_data)
       IN /\ m_engine' = r.engine
          /\ m_mappings' = r.mappings
    /\ m_pc' = "remapped"
    /\ UNCHANGED <<m_naming, m_data, s_vars, v_vars, p_vars, x_vars, w_vars>>

\* map_cmsd_data raises
MapDocumentRaises ==
    /\ m_pc = "input"
    /\ map_raises(resource_mappings, m_data)
    /\ m_engine' = engine_at_raise(resource_mappings, m_naming, m_engine, m_data)
    /\ m_pc' = "raised"
    /\ UNCHANGED <<m_naming, m_data, m_mappings, s_vars, v_vars, p_vars, x_vars, w_vars>>

NextMap == MapDocument \/ MapAgain

SpecMap == InitMap /\ [][NextMap]_vars

(***************************************************************************)
(* SpecMapCases: MappingEngine.map_cmsd_data on documents of few resources *)
(* whose types, property names and property values cover the cases of the  *)
(* rule lookup and of the conversion of a value.                           *)
(***************************************************************************)
MaxCaseRes == 2

MapCaseKinds ==
    {[resource_type |-> t, name |-> <<"a">>, properties |-> <<>>] :
        t \in {"Station", "STATION", "station", "Machine", "MACHINE", "Crane", "crane",
               "Sink", "Robot"}}
    \cup {[resource_type |-> "Drain", name |-> <<"B">>,
           properties |-> <<Prop("Capacity", v, "")>>] : v \in {"2", "x", "inf", "1e999"}}
    \cup {[resource_type |-> "Conveyor", name |-> <<"a">>,
           properties |-> <<Prop("Speed", v, "")>>] : v \in {"5", "x", "inf"}}
    \cup {[resource_type |-> "Station", name |-> <<"a">>,
           properties |-> <<Prop("ProcessingTime", "inf", "minute")>>],
          [resource_type |-> "Source", name |-> <<"a">>,
           properties |-> <<Prop("ProductType", "P1", "")>>],
          [resource_type |-> "Agv", name |-> <<"a">>,
           properties |-> <<Prop("Speed", "5", ""), Prop("Capacity", "2", "")>>],
          [resource_type |-> "Agv", name |-> <<"a">>,
           properties |-> <<Prop("speed", "5", "")>>],
          [resource_type |-> "Agv", name |-> <<"a">>, properties |-> <<>>]}

MapCaseDocs ==
    UNION {{MapDoc(ks, placed) : placed \in SUBSET DOMAIN ks} :
              ks \in SeqsUpTo(MapCaseKinds, MaxCaseRes)}

InitMapCases ==
    /\ InitSanitizeVars
    /\ InitPipelineVars
    /\ InitParseVars
    /\ InitPollVars
    /\ error_handling = [creation |-> "warn_and_continue", property |-> "warn_and_continue",
                         connection |-> "warn_and_continue"]
    /\ backend = "mock"
    /\ v_pc = "idle" /\ v_data = EmptyDoc /\ v_result = new_validation_result
    /\ m_pc = "input"
    /\ m_naming = DefaultNaming
    /\ m_data \in MapCaseDocs
    /\ m_engine = new_engine
    /\ m_mappings = <<>>

NextMapCases == MapDocument \/ MapAgain \/ MapDocumentRaises

SpecMapCases == InitMapCases /\ [][NextMapCases]_vars

(***************************************************************************)
(* SpecParse                                                               *)
(*                                                                         *)
(* XMLParser.parse_file on one input: a text that is not well-formed XML,  *)
(* or a document with or without a header section, whose Resource,         *)
(* Connection, LayoutObject and Placement elements have or lack their      *)
(* identifiers.                                                            *)
(***************************************************************************)
MaxResElems == 2

ConnElem(identifier, to_resource_id) ==
    [found |-> TRUE, identifier |-> identifier, to_resource_id |-> to_resource_id]

ResElem(identifier, connections, properties) ==
    [found |-> TRUE, identifier |-> identifier, resource_type |-> "Station",
     name |-> <<"a">>, connections |-> connections, properties |-> properties]

PropElem(name, value, unit) ==
    [found |-> TRUE, name |-> name, value |-> value, unit |-> unit]

LOElem(identifier, associated_resource_id) ==
    [found |-> TRUE, identifier |-> identifier,
     associated_resource_id |-> associated_resource_id]

PlaceElem(layout_element_id, position_x, rotation_angle, rotation_axis_z) ==
    [found |-> TRUE, layout_element_id |-> layout_element_id,
     position_x |-> position_x, position_y |-> NumText(2), position_z |-> NoText,
     rotation_angle |-> rotation_angle, rotation_axis_x |-> NoText,
     rotation_axis_y |-> NoText, rotation_axis_z |-> rotation_axis_z]

ResElems ==
    {ResElem("A", <<>>, <<>>),
     ResElem("B", <<>>, <<>>),
     ResElem("", <<>>, <<>>),
     ResElem("A", <<ConnElem("c1", "B")>>, <<>>),
     ResElem("A", <<ConnElem("", "B")>>, <<>>),
     ResElem("A", <<ConnElem("c1", "")>>, <<>>),
     ResElem("", <<ConnElem("c1", "B")>>, <<>>),
     ResElem("B", <<ConnElem("", "A"), ConnElem("c2", "A")>>,
             <<PropElem("ProcessingTime", "5", "minute"), PropElem("Speed", "", ""),
               PropElem("ProcessingTime", "2", "")>>)}

LOElemLists ==
    {<<>>, <<LOElem("L1", "A")>>, <<LOElem("", "A")>>, <<LOElem("L1", "")>>}

LayoutElems ==
    {NoLayoutElement}
    \cup {[found |-> TRUE, placements |-> ps] :
            ps \in {<<>>,
                    <<PlaceElem("L1", NumText(1), NoText, NoText)>>,
                    <<PlaceElem("", NumText(1), NoText, NoText)>>,
                    <<PlaceElem("L1", BadText, NoText, NoText)>>,
                    <<PlaceElem("L1", NumText(1), NumText(90), NoText)>>,
                    <<PlaceElem("L1", NumText(1), NumText(90), NumText(0))>>}}

HeaderElems ==
    {NoHeader, [found |-> TRUE, document_identifier |-> ""],
     [found |-> TRUE, document_identifier |-> "doc1"]}

XmlRoots ==
    {XmlRoot(FALSE, NoHeader, <<>>, <<>>, NoLayoutElement)}
    \cup {XmlRoot(TRUE, h, rs, los, lay) :
            h \in HeaderElems, rs \in SeqsUpTo(ResElems, MaxResElems),
            los \in LOElemLists, lay \in LayoutElems}

InitParse ==
    /\ InitSanitizeVars
    /\ InitPollVars
    /\ InitMapVars
    /\ InitPipelineVars
    /\ error_handling = [creation |-> "warn_and_continue", property |-> "warn_and_continue",
                         connection |-> "warn_and_continue"]
    /\ backend = "mock"
    /\ v_pc = "idle" /\ v_data = EmptyDoc /\ v_result = new_validation_result
    /\ x_pc = "input"
    /\ x_root \in XmlRoots
    /\ x_result = EmptyDoc

\* root = ElementTree.fromstring(xml_content); return self.parse_xml(root)
ParseDocument ==
    /\ x_pc = "input"
    /\ x_root.well_formed
    /\ x_result' = parse_xml(x_root)
    /\ x_pc' = "parsed"
    /\ UNCHANGED <<x_root, s_vars, v_vars, m_vars, p_vars, w_vars>>

\* ElementTree.fromstring raises: parse_file raises XMLParsingError
ParseDocumentFails ==
    /\ x_pc = "input"
    /\ ~x_root.well_formed
    /\ x_pc' = "failed"
    /\ UNCHANGED <<x_root, x_result, s_vars, v_vars, m_vars, p_vars, w_vars>>

NextParse == ParseDocument \/ ParseDocumentFails

SpecParse == InitParse /\ [][NextParse]_vars

(***************************************************************************)
(* SpecPoll: load_model, start_simulation and stop_simulation of           *)
(* plant_sim_controller, each with its polling helper. Time is counted in  *)
(* polling intervals: the helper sleeps one interval after a poll that did *)
(* not see the awaited condition, and the poll itself may take another;    *)
(* after the last poll it sleeps once more before it returns.              *)
(***************************************************************************)
MaxTimeout == 3
MaxPollTime == 2

Calls == {"load_model", "start_simulation", "stop_simulation"}

\* what the backend answers to one poll: GetValue("Models.Model.Name") for
\* load_model, IsSimulationRunning() for the other two, or an exception
Probe(raised, model_name, is_running) ==
    [raised |-> raised, model_name |-> model_name, is_running |-> is_running]

Probes(call) ==
    IF call = "load_model"
    THEN {Probe(TRUE, "", FALSE), Probe(FALSE, "", FALSE), Probe(FALSE, "Model", FALSE)}
    ELSE {Probe(TRUE, "", FALSE), Probe(FALSE, "", FALSE), Probe(FALSE, "", TRUE)}

\* expected_running_state, as start_simulation and stop_simulation pass it
expected_running_state(call) == call = "start_simulation"

\* the test in the loop of wait_for_model_loaded / wait_for_simulation_state
condition_observed(call, probe) ==
    /\ ~probe.raised
    /\ IF call = "load_model"
       THEN probe.model_name # ""
       ELSE probe.is_running = expected_running_state(call)

\* if wait_for_...(plant_sim): return True, else: return False
verified(waited) == IF waited = "true" THEN "true" ELSE "false"

InitPoll ==
    /\ InitSanitizeVars
    /\ InitMapVars
    /\ InitPipelineVars
    /\ InitParseVars
    /\ error_handling = [creation |-> "warn_and_continue", property |-> "warn_and_continue",
                         connection |-> "warn_and_continue"]
    /\ backend = "mock"
    /\ v_pc = "idle" /\ v_data = EmptyDoc /\ v_result = new_validation_result
    /\ w_pc = "input"
    /\ w_call \in Calls
    /\ w_path_exists \in BOOLEAN
    /\ w_timeout \in 1..MaxTimeout
    /\ w_elapsed = 0
    /\ w_probes = <<>>
    /\ w_waited = "none"
    /\ w_result = "none"

\* the command is sent to the backend and the helper is entered:
\* start_time = time.time()
SendCommand ==
    /\ w_pc = "input"
    /\ w_call = "load_model" => w_path_exists
    /\ w_elapsed' = 0
    /\ w_pc' = "polling"
    /\ UNCHANGED <<w_call, w_path_exists, w_timeout, w_probes, w_waited, w_result,
                   s_vars, v_vars, m_vars, p_vars, x_vars>>

\* the model file is missing, or the command raises: return False
SendCommandFails ==
    /\ w_pc = "input"
    /\ w_result' = "false"
    /\ w_pc' = "returned"
    /\ UNCHANGED <<w_call, w_path_exists, w_timeout, w_elapsed, w_probes, w_waited,
                   s_vars, v_vars, m_vars, p_vars, x_vars>>

\* one pass of the helper's loop that sees the condition: the helper returns
\* True and so does its caller
PollObserved ==
    /\ w_pc = "polling"
    /\ w_elapsed < w_timeout
    /\ \E probe \in Probes(w_call) :
          /\ condition_observed(w_call, probe)
          /\ w_probes' = Append(w_probes, probe)
    /\ w_waited' = "true"
    /\ w_result' = verified("true")
    /\ w_pc' = "returned"
    /\ UNCHANGED <<w_call, w_path_exists, w_timeout, w_elapsed,
                   s_vars, v_vars, m_vars, p_vars, x_vars>>

\* one pass of the helper's loop that does not see the condition, or whose
\* poll raises: time.sleep, then the loop test again
PollAgain ==
    /\ w_pc = "polling"
    /\ w_elapsed < w_timeout
    /\ \E probe \in Probes(w_call), dt \in 1..MaxPollTime :
          /\ ~condition_observed(w_call, probe)
          /\ w_probes' = Append(w_probes, probe)
          /\ w_elapsed' = w_elapsed + dt
    /\ UNCHANGED <<w_pc, w_call, w_path_exists, w_timeout, w_waited, w_result,
                   s_vars, v_vars, m_vars, p_vars, x_vars>>

\* time.sleep(2) in wait_for_model_loaded, time.sleep(1) in
\* wait_for_simulation_state, in polling intervals of 0.5 s and 0.2 s
fallback_sleep(call) == IF call = "load_model" THEN 4 ELSE 5

\* the loop test fails: the helper logs a warning and starts its fallback
\* sleep; the call has not returned yet
PollTimeout ==
    /\ w_pc = "polling"
    /\ w_elapsed >= w_timeout
    /\ w_pc' = "fallback"
    /\ UNCHANGED <<w_call, w_path_exists, w_timeout, w_elapsed, w_probes, w_waited, w_result,
                   s_vars, v_vars, m_vars, p_vars, x_vars>>

\* the fallback sleep ends: the helper returns True, and so does its caller
FallbackReturn ==
    /\ w_pc = "fallback"
    /\ w_elapsed' = w_elapsed + fallback_sleep(w_call)
    /\ w_waited' = "true"
    /\ w_result' = verified("true")
    /\ w_pc' = "returned"
    /\ UNCHANGED <<w_call, w_path_exists, w_timeout, w_probes,
                   s_vars, v_vars, m_vars, p_vars, x_vars>>

NextPoll ==
    \/ SendCommand
    \/ SendCommandFails
    \/ PollObserved
    \/ PollAgain
    \/ PollTimeout
    \/ FallbackReturn

SpecPoll == InitPoll /\ [][NextPoll]_vars

(***************************************************************************)
(* Properties                                                              *)
(***************************************************************************)
IsPrefix(a, b) == Len(a) <= Len(b) /\ \A i \in DOMAIN a : a[i] = b[i]

StageOrder ==
    <<"parse", "validate", "map", "create_objects", "create_connections", "post_validate">>

\* C1: once validate has returned is_valid = false, process_xml_file does nothing
\* but return False: no mapping is made, no later stage is entered, no backend
\* call is issued.
C1_InvalidStopsBeforeMapping ==
    ("validate" \in Range(stages) /\ ~validation_result.is_valid) =>
        /\ stages = <<"parse", "validate">>
        /\ pc \in {"validated", "done"}
        /\ pc = "done" => returned = "false"
        /\ returned # "true"
        /\ mappings = <<>>
        /\ ops = <<>>
        /\ interface = new_interface

C1_Witness ==
    /\ pc = "done"
    /\ returned = "false"
    /\ "validate" \in Range(stages)
    /\ ~validation_result.is_valid
    /\ validation_result.errors # <<>>

\* C2: the stages are entered in the order parse, validate, map, create objects,
\* create connections, post-validate; a run that returns True went through all of
\* them; create_connections is entered only when every mapping has been through
\* create_objects, so no derive or property assignment follows a connect.
C2_StagesInOrder ==
    /\ IsPrefix(stages, StageOrder)
    /\ returned = "true" <=> (pc = "done" /\ stages = StageOrder)
    /\ "create_connections" \in Range(stages) => oi = Len(mappings) + 1
    /\ "create_objects" \notin Range(stages) => ops = <<>>
    /\ "create_connections" \notin Range(stages) =>
          \A i \in DOMAIN ops : ops[i].op # "connect"
    /\ \A i \in DOMAIN ops : \A j \in DOMAIN ops :
          (ops[i].op = "connect" /\ i < j) => ops[j].op = "connect"

C2_Witness ==
    /\ returned = "true"
    /\ Len(mappings) >= 2
    /\ \E i \in DOMAIN ops : ops[i].op = "connect"
    /\ \E i \in DOMAIN ops : ops[i].op = "derive" /\ ops[i].rid = mappings[Len(mappings)].resource.identifier

\* C3: the result of validate is invalid exactly when it holds an error, and a
\* warning added to it leaves is_valid as validate set it.
C3_ValidIffNoErrors ==
    v_pc = "validated" =>
        /\ ~v_result.is_valid <=> v_result.errors # <<>>
        /\ v_result.is_valid = validate(v_data).is_valid
        /\ v_result.errors = validate(v_data).errors

C3_Witness ==
    /\ v_pc = "validated"
    /\ v_result.is_valid
    /\ v_result.errors = <<>>
    /\ Len(v_result.warnings) >= 2
    /\ Len(v_result.warnings) > Len(validate(v_data).warnings)

ConnectionErrorKinds == {"connection_unknown_source", "connection_unknown_target"}

dangling(data, c) ==
    c.from_resource_id \notin resource_ids(data) \/ c.to_resource_id \notin resource_ids(data)

errors_naming(errors, kinds, id) == Count(errors, LAMBDA e : e.kind \in kinds /\ e.id = id)

\* C4 as claimed: a connection with an absent endpoint (from, to, or both) gets
\* exactly one error naming it.  (Connections that share their identifier with
\* another connection are left out: their errors cannot be told apart.)
C4_ExactlyOneErrorPerConnection ==
    v_pc = "validated" =>
        \A i \in DOMAIN v_data.connections :
            LET c == v_data.connections[i]
            IN (/\ dangling(v_data, c)
                /\ \A j \in DOMAIN v_data.connections :
                      j # i => v_data.connections[j].identifier # c.identifier)
               => errors_naming(v_result.errors, ConnectionErrorKinds, c.identifier) = 1

\* C4 amended: validate reports one error per absent endpoint: for every
\* connection identifier, as many "unknown source" errors naming it as
\* connections of that identifier with an absent from endpoint, and as many
\* "unknown target" errors as connections with an absent to endpoint; so a
\* connection whose two endpoints are absent gets two errors.
C4_OneErrorPerAbsentEndpoint ==
    v_pc = "validated" =>
        \A id \in ConnIds :
            /\ errors_naming(v_result.errors, {"connection_unknown_source"}, id)
                 = Count(v_data.connections, LAMBDA c :
                       c.identifier = id /\ c.from_resource_id \notin resource_ids(v_data))
            /\ errors_naming(v_result.errors, {"connection_unknown_target"}, id)
                 = Count(v_data.connections, LAMBDA c :
                       c.identifier = id /\ c.to_resource_id \notin resource_ids(v_data))

C4_Witness ==
    /\ v_pc = "validated"
    /\ Len(v_data.connections) = 2
    /\ v_data.connections[1].identifier # v_data.connections[2].identifier
    /\ v_data.connections[1].from_resource_id \notin resource_ids(v_data)
    /\ v_data.connections[1].to_resource_id \notin resource_ids(v_data)
    /\ v_data.connections[2].from_resource_id \in resource_ids(v_data)
    /\ v_data.connections[2].to_resource_id \notin resource_ids(v_data)
    /\ errors_naming(v_result.errors, ConnectionErrorKinds, v_data.connections[1].identifier) = 2
    /\ errors_naming(v_result.errors, ConnectionErrorKinds, v_data.connections[2].identifier) = 1

\* C5: validate records exactly one error for each layout object whose
\* associated resource is not a resource of the document, naming the layout
\* object and the reference, and none for a layout object whose resource exists;
\* every violation is reported, not only the first.
C5_OneErrorPerUnknownLayoutResource ==
    v_pc = "validated" =>
        /\ \A i \in DOMAIN v_data.layout_objects :
              LET lo == v_data.layout_objects[i]
              IN Count(v_result.errors, LAMBDA e :
                       /\ e.kind = "layout_object_unknown_resource"
                       /\ e.id = lo.identifier
                       /\ e.ref = lo.associated_resource_id)
                 = IF lo.associated_resource_id \in resource_ids(v_data) THEN 0 ELSE 1
        /\ Count(v_result.errors, LAMBDA e : e.kind = "layout_object_unknown_resource")
             = Count(v_data.layout_objects, LAMBDA lo :
                   lo.associated_resource_id \notin resource_ids(v_data))

C5_Witness ==
    /\ v_pc = "validated"
    /\ Len(v_data.layout_objects) >= 2
    /\ \A i \in DOMAIN v_data.layout_objects :
          v_data.layout_objects[i].associated_resource_id \notin resource_ids(v_data)
    /\ v_data.resources # <<>>
    /\ Count(v_result.errors, LAMBDA e : e.kind = "layout_object_unknown_resource")
         = Len(v_data.layout_objects)

\* C6 as claimed: sanitize_name is idempotent, for every name and every naming
\* configuration.
C6_SanitizeIdempotent ==
    s_pc = "twice" => s_twice = s_once

\* ---- what the log of backend calls and the mappings record ----
failed_creation(op) == op.op \in {"resolve", "derive"} /\ ~op.ok
failed_set(op) == op.op = "set" /\ ~op.ok
failed_connect(op) == op.op = "connect" /\ ~op.ok

mapping_of(rid) ==
    mappings[CHOOSE i \in DOMAIN mappings : mappings[i].resource.identifier = rid]

\* the errors of a kind recorded on the mappings
recorded_errors(kinds) ==
    Cardinality({p \in UNION {{<<i, j>> : j \in DOMAIN mappings[i].errors} : i \in DOMAIN mappings} :
                    mappings[p[1]].errors[p[2]].kind \in kinds})

\* the property-category errors that went through _handle_error
property_errors == recorded_errors({"failed_to_set_property"})

failed_objects == {ops[i].rid : i \in {j \in DOMAIN ops : failed_creation(ops[j])}}

create_objects_returned == "create_connections" \in Range(stages)

\* C7 as claimed: with on_creation_error = error_and_stop, a template that cannot
\* be resolved or a derive that fails makes create_objects raise at that mapping
\* (process_xml_file returns False), and no backend call follows the failed one.
C7_CreationErrorStops ==
    error_handling.creation = "error_and_stop" =>
        \A i \in DOMAIN ops :
            failed_creation(ops[i]) =>
                /\ i = Len(ops)
                /\ pc = "done"
                /\ returned = "false"

\* C8 as claimed: with on_creation_error = warn_and_continue, when create_objects
\* has returned, every mapping that names a template was attempted, the objects
\* whose resolve or derive failed are not in the registry, and the errors counter
\* holds one error per failed object (besides the property errors).
C8_CreationFailureCounted ==
    (error_handling.creation = "warn_and_continue" /\ create_objects_returned) =>
        /\ \A i \in DOMAIN mappings :
              mappings[i].template # "" =>
                  \E j \in DOMAIN ops : /\ ops[j].op = "resolve"
                                        /\ ops[j].rid = mappings[i].resource.identifier
        /\ failed_objects \cap object_ids(interface.created_objects) = {}
        /\ interface.stats.errors = property_errors + Cardinality(failed_objects)

\* the properties of a mapping that _set_object_properties assigns
assigned_properties(mapping) ==
    {mapping.properties[i].name : i \in {j \in DOMAIN mapping.properties :
        /\ lower(mapping.properties[j].name) # "name"
        /\ mapping.properties[j].data_type # "special"}}

\* C9 as claimed: with a non-stopping property policy, every property assignment
\* that failed in the backend is recorded as a property error (a message on its
\* mapping, the errors counter counts it), the other properties of the object
\* were assigned all the same, and the object is in the registry.
C9_PropertyFailureRecorded ==
    error_handling.property # "error_and_stop" =>
        /\ \A i \in DOMAIN ops :
              failed_set(ops[i]) =>
                  /\ \E k \in DOMAIN mapping_of(ops[i].rid).errors :
                        mapping_of(ops[i].rid).errors[k]
                            = Msg("failed_to_set_property", ops[i].arg, "")
                  /\ ops[i].rid \in object_ids(interface.created_objects)
                  /\ (~\E j \in DOMAIN ops : ops[j].op = "mu_derive" /\ ~ops[j].ok
                                             /\ ops[j].rid = ops[i].rid)
                     => \A name \in assigned_properties(mapping_of(ops[i].rid)) :
                           \E j \in DOMAIN ops : /\ ops[j].op = "set"
                                                 /\ ops[j].rid = ops[i].rid
                                                 /\ ops[j].arg = name
        /\ interface.stats.errors >= Cardinality({i \in DOMAIN ops : failed_set(ops[i])})

\* C10 as claimed: a connect that fails in the backend is counted in the errors
\* counter, with on_connection_error = error_and_stop it propagates out of
\* create_connections (process_xml_file returns False), and the failed connection
\* is not in the list of created connections.
C10_ConnectFailureRecorded ==
    (\E i \in DOMAIN ops : failed_connect(ops[i])) =>
        /\ interface.stats.errors
             >= property_errors + Cardinality({i \in DOMAIN ops : failed_connect(ops[i])})
        /\ error_handling.connection = "error_and_stop" => (pc = "done" /\ returned = "false")
        /\ Len(created_connections)
             = Cardinality({i \in DOMAIN ops : ops[i].op = "connect" /\ ops[i].ok})

\* ---- create_connections and validate_created_objects ----
both_created(connection) ==
    /\ connection.from_resource_id \in object_ids(interface.created_objects)
    /\ connection.to_resource_id \in object_ids(interface.created_objects)

\* the (from, to) pairs of the connections among conns whose endpoints were created
expected_connections(conns) ==
    LET kept == SelectSeq(conns, both_created)
    IN [i \in DOMAIN kept |-> <<kept[i].from_resource_id, kept[i].to_resource_id>>]

connections_entered == "create_connections" \in Range(stages)

\* C11: when no connect has failed, the list built by create_connections is, at
\* every point of its loop and when it returns, the (from, to) pairs of the
\* connections processed so far whose two endpoints are in the created registry,
\* in document order, repeated connections kept; the returned list is the one
\* stored on the interface.
C11_ConnectionsInDocumentOrder ==
    (connections_entered /\ ~\E i \in DOMAIN ops : failed_connect(ops[i])) =>
        /\ created_connections
             = expected_connections(SubSeq(cmsd_data.connections, 1, ci - 1))
        /\ pc \in {"connections_created", "done"} =>
              /\ ci = Len(cmsd_data.connections) + 1
              /\ interface.created_connections = created_connections
              /\ interface.stats.connections_created = Len(created_connections)

C11_Witness ==
    /\ returned = "true"
    /\ cmsd_data = DocLine
    /\ object_ids(interface.created_objects) = {"A", "B", "C"}
    /\ created_connections = << <<"A", "B">>, <<"B", "C">> >>
    /\ issues.warnings = <<>>

\* C12: a connect is issued, and a pair returned, only for a connection whose two
\* endpoints are in the created registry; the iteration of create_connections
\* for a connection with an endpoint that was not created issues no backend
\* call, leaves the statistics and the list alone and goes on to the next
\* connection, whatever the connection policy.
C12_SkipUncreatedEndpoints ==
    /\ [](\A i \in DOMAIN ops :
             ops[i].op = "connect" =>
                 {ops[i].rid, ops[i].arg} \subseteq object_ids(interface.created_objects))
    /\ [](connections_entered =>
             \A i \in DOMAIN created_connections :
                 {created_connections[i][1], created_connections[i][2]}
                     \subseteq object_ids(interface.created_objects))
    /\ [][(/\ pc = "create_connections"
           /\ ci <= Len(cmsd_data.connections)
           /\ ~both_created(cmsd_data.connections[ci]))
          => (/\ ops' = ops
              /\ interface' = interface
              /\ created_connections' = created_connections
              /\ pc' = "create_connections"
              /\ returned' = returned
              /\ ci' = ci + 1)]_vars

C12_Witness ==
    /\ error_handling.connection = "error_and_stop"
    /\ returned = "true"
    /\ \E i \in DOMAIN cmsd_data.connections : ~both_created(cmsd_data.connections[i])
    /\ \E i \in DOMAIN cmsd_data.connections : both_created(cmsd_data.connections[i])
    /\ interface.stats.errors = 0
    /\ Len(created_connections) = 2

unconnected(rid) ==
    \A i \in DOMAIN interface.created_connections :
        /\ interface.created_connections[i][1] # rid
        /\ interface.created_connections[i][2] # rid

\* C13: validate_created_objects gives no error and one warning for each created
\* object that is in no created connection, neither as source nor as target, and
\* for no other; the step that calls it leaves the registry, the connection list
\* and the statistics as they were.
C13_OrphanWarningsOnly ==
    /\ []("post_validate" \in Range(stages) =>
             /\ issues.errors = <<>>
             /\ Range(issues.warnings)
                  = {rid \in object_ids(interface.created_objects) : unconnected(rid)}
             /\ Len(issues.warnings) = Cardinality(Range(issues.warnings)))
    /\ [][pc = "connections_created" => interface' = interface]_vars

C13_Witness ==
    /\ "post_validate" \in Range(stages)
    /\ issues.warnings # <<>>
    /\ Len(issues.warnings) < Len(interface.created_objects)
    /\ \E i \in DOMAIN interface.created_connections :
          interface.created_connections[i][1] # interface.created_connections[i][2]

\* ---- the mapping engine (SpecMap) ----
map_done == m_pc \in {"mapped", "remapped"}

lacks(resource, p) ==
    ~\E i \in DOMAIN resource.properties : lower(resource.properties[i].name) = p

has_default(config, p) ==
    \E i \in DOMAIN config.default_properties : config.default_properties[i].name = p

default_of(config, p) ==
    config.default_properties[CHOOSE i \in DOMAIN config.default_properties :
                                 config.default_properties[i].name = p].value

\* the layout object of the documents of SpecMap that shows a resource is placed
placed_resource(data, rid) ==
    \E i \in DOMAIN data.layout_objects :
        /\ data.layout_objects[i].associated_resource_id = rid
        /\ has_placement(data, data.layout_objects[i].identifier)

\* what C14 says of a mapping whose resource lacks the required property p, but
\* for the number of warnings, which is given
required_filled(mapping, config, p, n_warnings) ==
    IF has_default(config, p)
    THEN /\ Count(mapping.properties, LAMBDA e :
                  e.name = p /\ e.value.t = "float" /\ e.value.n = default_of(config, p)) = 1
         /\ Count(mapping.warnings, LAMBDA w : w = Msg("using_default", p, "")) = 1
         /\ Len(mapping.warnings) = n_warnings
         /\ Count(mapping.errors, LAMBDA e : e.kind = "required_not_found") = 0
    ELSE /\ Count(mapping.errors, LAMBDA e : e = Msg("required_not_found", p, "")) = 1
         /\ Count(mapping.properties, LAMBDA e : lower(e.name) = p) = 0
         /\ Count(mapping.warnings, LAMBDA w : w.kind = "using_default") = 0

\* C14 as claimed: a mapping whose resource lacks a required property that has a
\* default holds the default and exactly one warning; without a default it
\* holds a mapping error and no value.
C14_DefaultWithExactlyOneWarning ==
    map_done =>
        \A i \in DOMAIN m_mappings :
            LET config == find_mapping_config(resource_mappings,
                                              lower(m_mappings[i].resource.resource_type))
            IN \A k \in DOMAIN config.required_properties :
                  lacks(m_mappings[i].resource, config.required_properties[k])
                  => required_filled(m_mappings[i], config, config.required_properties[k], 1)

\* C14 amended: a mapping whose resource lacks a required property that has a
\* default holds the default (as a float property) and exactly one warning
\* about that property; it holds one warning in all when the layout object has
\* a placement and two, the second being "no placement", when it has none.
\* Without a default the mapping holds one error about the property, no value
\* for it and no such warning.
C14_DefaultWithOneWarningForProperty ==
    map_done =>
        \A i \in DOMAIN m_mappings :
            LET config == find_mapping_config(resource_mappings,
                                              lower(m_mappings[i].resource.resource_type))
                n == IF placed_resource(m_data, m_mappings[i].resource.identifier)
                     THEN 1 ELSE 2
            IN \A k \in DOMAIN config.required_properties :
                  lacks(m_mappings[i].resource, config.required_properties[k])
                  => required_filled(m_mappings[i], config, config.required_properties[k], n)

C14_Witness ==
    /\ m_pc = "mapped"
    /\ Len(m_mappings) = 3
    /\ m_mappings[1].resource.resource_type = "Conveyor"
    /\ lacks(m_mappings[1].resource, "speed")
    /\ placed_resource(m_data, "R1")
    /\ \E j \in DOMAIN m_mappings[1].properties :
          m_mappings[1].properties[j]
              = [name |-> "speed", value |-> float_val(2), data_type |-> "float"]
    /\ m_mappings[1].warnings = <<Msg("using_default", "speed", "")>>
    /\ m_mappings[2].resource.resource_type = "Conveyor"
    /\ lacks(m_mappings[2].resource, "speed")
    /\ ~placed_resource(m_data, "R2")
    /\ Len(m_mappings[2].warnings) = 2
    /\ m_mappings[3].resource.resource_type = "Drain"
    /\ lacks(m_mappings[3].resource, "capacity")
    /\ m_mappings[3].errors = <<Msg("required_not_found", "capacity", "")>>

\* the values given to the material-unit handler, in the order of its invocations
handler_inputs(data) ==
    LET sources == SelectSeq(data.resources, LAMBDA r :
                       lower(r.resource_type) = "source" /\ ~lacks(r, "producttype"))
    IN [i \in DOMAIN sources |-> get_property(sources[i], "ProductType").value]

\* the distinct values of a sequence, in the order of their first occurrence
RECURSIVE first_seen(_)
first_seen(values) ==
    IF values = <<>> THEN <<>>
    ELSE LET front == first_seen(SubSeq(values, 1, Len(values) - 1))
             last == values[Len(values)]
         IN IF last \in Range(front) THEN front ELSE Append(front, last)

Labels == <<"PartA", "PartB", "PartC", "PartD", "PartE">>

\* C15: after any number of calls of map_cmsd_data on one engine, the k-th
\* distinct product type given to the handler has the k-th label, no label was
\* consumed by a repeated product type, and every source mapping carries the
\* label of its product type as its Path.
C15_LabelsInFirstSeenOrder ==
    map_done =>
        LET seen == first_seen(handler_inputs(m_data))
        IN /\ m_engine.material_units
                = [k \in DOMAIN seen |-> [product_type |-> seen[k], mu_name |-> Labels[k]]]
           /\ m_engine.next_mu_letter = 65 + Len(seen)
           /\ \A i \in DOMAIN m_mappings :
                 lower(m_mappings[i].resource.resource_type) = "source" =>
                    \E k \in DOMAIN seen :
                       /\ seen[k] = get_property(m_mappings[i].resource, "ProductType").value
                       /\ \E j \in DOMAIN m_mappings[i].properties :
                             /\ m_mappings[i].properties[j].name = "Path"
                             /\ m_mappings[i].properties[j].value.s = Labels[k]

C15_Witness ==
    /\ m_pc = "remapped"
    /\ handler_inputs(m_data) = <<"P2", "P1", "P2">>
    /\ m_engine.material_units = << [product_type |-> "P2", mu_name |-> "PartA"],
                                    [product_type |-> "P1", mu_name |-> "PartB"] >>
    /\ m_engine.next_mu_letter = 67

\* C19 as claimed: every mapping returned by map_cmsd_data, with or without a
\* placement, holds a property "name" whose value is sanitize_name of the
\* resource's name.
C19_EveryMappingNamed ==
    map_done =>
        \A i \in DOMAIN m_mappings :
            \E j \in DOMAIN m_mappings[i].properties :
                /\ m_mappings[i].properties[j].name = "name"
                /\ m_mappings[i].properties[j].value
                     = chars_val(sanitize_name(m_naming, m_mappings[i].resource.name))

\* ---- the backends ----
\* create_objects on the first k mappings when every call returns, as on the
\* mock backend: [material_units, stats, ops, local, registry]
RECURSIVE mock_create_objects(_)
mock_create_objects(k) ==
    IF k = 0
    THEN [material_units |-> <<>>, stats |-> new_interface.stats, ops |-> <<>>,
          local |-> <<>>, registry |-> <<>>]
    ELSE LET st == mock_create_objects(k - 1)
             r == create_object([mapping |-> mappings[k], material_units |-> st.material_units,
                                 stats |-> st.stats, ops |-> st.ops, raised |-> FALSE],
                                st.local, st.registry, error_handling, DefaultNaming, {})
         IN [material_units |-> r.cs.material_units, stats |-> r.cs.stats, ops |-> r.cs.ops,
             local |-> r.created_objects, registry |-> r.registry]

\* the derive and set-property operations of a log, without their outcome
issued(log) ==
    LET calls == SelectSeq(log, LAMBDA op : op.op \in {"derive", "mu_derive", "set"})
    IN [i \in DOMAIN calls |-> <<calls[i].op, calls[i].rid, calls[i].arg>>]

no_call_failed ==
    \A i \in DOMAIN ops : ops[i].op \in {"derive", "mu_derive", "set", "connect"} => ops[i].ok

\* C16 as claimed: while no derive, set-property or connect call has failed, the
\* derive and set-property operations issued, the keys of the created registry
\* and the statistics are those of the mock backend on the same mappings,
\* whichever backend is active.
C16_BackendsSubstitutable ==
    (pc = "create_objects" /\ no_call_failed) =>
        LET mock == mock_create_objects(oi - 1)
        IN /\ issued(ops) = issued(mock.ops)
           /\ object_ids(interface.created_objects) = object_ids(mock.registry)
           /\ interface.stats = mock.stats

\* C20 as claimed: the names given to derive for two different mappings are
\* never the same.
C20_DerivedNamesDistinct ==
    \A i \in DOMAIN ops : \A j \in DOMAIN ops :
        (/\ ops[i].op = "derive"
         /\ ops[j].op = "derive"
         /\ ops[i].rid # ops[j].rid)
        => ops[i].name # ops[j].name

\* ---- the parser ----
\* C17 as claimed: parse_file returns a Document only for an input whose header
\* section is found.
C17_MissingHeaderIsParseError ==
    x_pc = "parsed" => x_root.header.found

has_identifier(elem) == elem.identifier # ""

\* the connections of a well-formed input whose Connection element, source
\* resource and target all have their identifiers, in document order
RECURSIVE identified_connections(_)
identified_connections(res_elems) ==
    IF res_elems = <<>> THEN <<>>
    ELSE LET e == res_elems[Len(res_elems)]
             cs == SelectSeq(e.connections,
                             LAMBDA c : has_identifier(c) /\ c.to_resource_id # "")
         IN identified_connections(SubSeq(res_elems, 1, Len(res_elems) - 1))
            \o (IF has_identifier(e)
                THEN [i \in DOMAIN cs |-> Conn(cs[i].identifier, e.identifier, cs[i].to_resource_id)]
                ELSE <<>>)

\* C18 as claimed: a well-formed input is parsed; the resources and layout
\* objects of the Document are those of the elements that have their
\* identifiers, and its connections are those of the Connection elements that
\* have their identifiers, in document order.
C18_EntitiesWithoutIdentifierOmitted ==
    /\ x_pc = "failed" => ~x_root.well_formed
    /\ x_pc = "parsed" =>
        /\ {x_result.resources[i].identifier : i \in DOMAIN x_result.resources}
             = {e.identifier : e \in {r \in Range(x_root.resources) : has_identifier(r)}}
        /\ {x_result.layout_objects[i].identifier : i \in DOMAIN x_result.layout_objects}
             = {e.identifier : e \in {l \in Range(x_root.layout_objects) :
                                         has_identifier(l) /\ l.associated_resource_id # ""}}
        /\ x_result.connections = identified_connections(x_root.resources)

\* ---- the rule lookup ----
\* the rules that a resource type names when letter case is ignored: by key,
\* else the first by alias
ci_rules(rules, resource_type) ==
    LET direct == {i \in DOMAIN rules : lower(rules[i].key) = lower(resource_type)}
        aliased == {i \in DOMAIN rules : lower(rules[i].alias) = lower(resource_type)}
    IN IF direct # {} THEN direct
       ELSE {i \in aliased : \A j \in aliased : i <= j}

\* C21 as claimed: the layout object of a resource is mapped with the rule that
\* its type names by key, else by alias, whatever the letter case of the type,
\* of the keys and of the aliases; it is skipped when no rule is named.
C21_RuleLookupIgnoresCase ==
    map_done =>
        \A i \in DOMAIN m_data.resources :
            LET resource == m_data.resources[i]
                named == ci_rules(resource_mappings, resource.resource_type)
                mapped == {j \in DOMAIN m_mappings :
                              m_mappings[j].resource.identifier = resource.identifier}
            IN IF named = {} THEN mapped = {}
               ELSE /\ mapped # {}
                    /\ \A j \in mapped : \A k \in named :
                          m_mappings[j].template = resource_mappings[k].template

\* ---- the conversion of values ----
\* the resources of a document that have a layout object and a rule
mappable(data) ==
    {data.resources[i].identifier : i \in {j \in DOMAIN data.resources :
        /\ \E l \in DOMAIN data.layout_objects :
              data.layout_objects[l].associated_resource_id = data.resources[j].identifier
        /\ has_mapping_config(resource_mappings, lower(data.resources[j].resource_type))}}

\* C22 as claimed: map_cmsd_data never raises; it returns a mapping for every
\* resource that has a layout object and a rule, and every property of rule
\* type int or float that it maps holds a number.
C22_ConversionNeverRaises ==
    /\ m_pc # "raised"
    /\ map_done =>
          /\ {m_mappings[i].resource.identifier : i \in DOMAIN m_mappings} = mappable(m_data)
          /\ \A i \in DOMAIN m_mappings : \A j \in DOMAIN m_mappings[i].properties :
                m_mappings[i].properties[j].data_type \in {"int", "float"}
                => m_mappings[i].properties[j].value.t \in {"int", "float", "inf"}

\* ---- the property policy and the order of the operations ----
\* C23 as claimed: with on_property_error = error_and_stop, a property assignment
\* that fails makes create_objects raise (process_xml_file returns False): no
\* backend call follows the failed one, for that object or for a later mapping.
C23_PropertyErrorStops ==
    error_handling.property = "error_and_stop" =>
        \A i \in DOMAIN ops :
            failed_set(ops[i]) =>
                /\ i = Len(ops)
                /\ pc = "done"
                /\ returned = "false"

\* the properties that the set operations of a resource assigned, in order
sets_of(rid) ==
    LET calls == SelectSeq(ops, LAMBDA o : o.op = "set" /\ o.rid = rid)
    IN [i \in DOMAIN calls |-> calls[i].arg]

\* the names of the properties of a mapping but the name, and but those of some
\* data types, in the order of the mapping
properties_but(mapping, data_types) ==
    LET props == SelectSeq(mapping.properties,
                           LAMBDA e : lower(e.name) # "name" /\ e.data_type \notin data_types)
    IN [i \in DOMAIN props |-> props[i].name]

\* every backend call made for the resource returned
all_calls_returned(rid) == \A i \in DOMAIN ops : ops[i].rid = rid => ops[i].ok

\* one derive for the resource, under the name of its mapping, before its sets
derived_first(rid) ==
    /\ Cardinality({i \in DOMAIN ops : ops[i].op = "derive" /\ ops[i].rid = rid}) = 1
    /\ \A i \in DOMAIN ops : \A j \in DOMAIN ops :
          (ops[i].op = "derive" /\ ops[i].rid = rid /\ ops[j].op = "set" /\ ops[j].rid = rid)
          => /\ i < j
             /\ ops[i].name = get_object_name(DefaultNaming, mapping_of(rid))

never_sets_name == \A i \in DOMAIN ops : ops[i].op = "set" => lower(ops[i].arg) # "name"

\* C24 as claimed: for a created object all of whose backend calls returned,
\* derive comes first, under the name of the mapping, then every mapped property
\* but the name is assigned exactly once, in the order of the mapping; the name
\* is never assigned.
\* It fails without any failing call: a property of data type "list" whose
\* value is not a list is never assigned and only a warning is added to the
\* mapping (DocPallet: the sets are Coordinate3D, Color; Dimensions is
\* missing). The metadata of data type "special" is not assigned either.
C24_EveryPropertyAppliedInOrder ==
    /\ never_sets_name
    /\ \A rid \in object_ids(interface.created_objects) :
          all_calls_returned(rid) =>
              /\ derived_first(rid)
              /\ sets_of(rid) = properties_but(mapping_of(rid), {})

\* ---- required properties that the resource carries ----
\* C25 as claimed: when the resource carries a property that the rule lists as
\* required, whatever the letter case of either name, the mapping keeps the value
\* converted from the source, and holds no default warning and no
\* missing-property error for it.
C25_PresentRequiredPropertyKept ==
    map_done =>
        \A i \in DOMAIN m_mappings :
            LET mapping == m_mappings[i]
                config == find_mapping_config(resource_mappings,
                                              lower(mapping.resource.resource_type))
            IN \A k \in DOMAIN config.required_properties :
                  LET req_prop == config.required_properties[k]
                  IN ~lacks(mapping.resource, lower(req_prop)) =>
                        /\ Msg("using_default", req_prop, "") \notin Range(mapping.warnings)
                        /\ Msg("required_not_found", req_prop, "") \notin Range(mapping.errors)
                        /\ \A r \in DOMAIN config.properties :
                              lower(config.properties[r].xml_name) = lower(req_prop) =>
                                 \E j \in DOMAIN mapping.properties :
                                    /\ mapping.properties[j].name
                                         = config.properties[r].plantsim_property
                                    /\ mapping.properties[j].value
                                         = convert_property_value(
                                              get_property(mapping.resource,
                                                           config.properties[r].xml_name),
                                              config.properties[r].data_type,
                                              config.properties[r].unit_conversion)

\* ---- the length of a sanitized name ----
\* C26 as claimed: the result of sanitize_name is at most max_length long and
\* does not begin with a digit.
C26_SanitizedNameWithinMaxLength ==
    s_pc \in {"once", "twice"} =>
        /\ Len(s_once) <= s_config.max_length
        /\ s_once # <<>> => ~isdigit(s_once[1])

\* ---------------------------------------------------------------------------
\* C27: once parsing has returned, no later stage changes the document:
\* validate, map_cmsd_data, create_objects, create_connections and
\* validate_created_objects leave its resources (with their properties and
\* connections lists), layout objects, placements and connection list as the
\* parser returned them.
C27_DocumentUnchangedAfterParse ==
    [][pc # "start" => cmsd_data' = cmsd_data]_vars

\* every stage has run on a document with resources, placements and
\* connections, and objects and connections were created from it
C27_Witness ==
    /\ pc = "done"
    /\ returned = "true"
    /\ stages = <<"parse", "validate", "map", "create_objects",
                  "create_connections", "post_validate">>
    /\ cmsd_data = DocLine
    /\ interface.created_objects # <<>>
    /\ interface.created_connections # <<>>

\* ---- rotation axis components ----
\* the component the claim expects: the one given in the source, the default
\* when it is absent or unparsable
given_or(text, default) == IF text.kind = "num" THEN text.n ELSE default

\* the value of a property of a mapping
mapped_value(mapping, ps_property) ==
    mapping.properties[CHOOSE i \in DOMAIN mapping.properties :
                          mapping.properties[i].name = ps_property].value

\* C28 as claimed: for a placement that has a rotation angle, every rotation
\* axis component given in the source, the value 0 included, reaches the
\* emitted rotation property [angle, axis_x, axis_y, axis_z] unchanged; the
\* defaults 0, 0, 1 stand only for components that are absent or unparsable.
C28_GivenAxisReachesRotationProperty ==
    x_pc = "parsed" =>
        LET ms == map_cmsd_data(resource_mappings, DefaultNaming, new_engine, x_result).mappings
        IN \A i \in DOMAIN ms, j \in DOMAIN x_result.layout_objects,
              k \in DOMAIN x_root.layout.placements :
              LET lo == x_result.layout_objects[j]
                  e == x_root.layout.placements[k]
              IN (/\ lo.associated_resource_id = ms[i].resource.identifier
                  /\ e.layout_element_id = lo.identifier
                  /\ e.position_x.kind = "num" /\ e.position_y.kind = "num"
                  /\ e.rotation_angle.kind = "num")
                 => mapped_value(ms[i], "_3D.Rotation") =
                        list_val(<<e.rotation_angle.n,
                                   given_or(e.rotation_axis_x, 0),
                                   given_or(e.rotation_axis_y, 0),
                                   given_or(e.rotation_axis_z, 1)>>)

\* ---- statistics and registries ----
\* C29: on a fresh interface, objects_created is the number of entries of the
\* created-object registry and of the map create_objects builds, at every point
\* of create_objects and after it; once create_connections has returned,
\* connections_created is the length of the created-connection list it stored
\* and returned. Both hold whatever calls have failed.
C29_StatisticsAgreeWithRegistries ==
    /\ interface.stats.objects_created = Len(interface.created_objects)
    /\ "create_objects" \in Range(stages) =>
           interface.stats.objects_created = Len(created_objects)
    /\ (connections_entered /\ pc \in {"connections_created", "done"}) =>
           /\ interface.stats.connections_created = Len(interface.created_connections)
           /\ interface.stats.connections_created = Len(created_connections)

\* both stages have returned; a creation and another call have failed, other
\* objects and connections were made
C29_Witness ==
    /\ returned = "true"
    /\ \E i \in DOMAIN ops : ops[i].op = "derive" /\ ~ops[i].ok
    /\ faults = MaxFaults
    /\ interface.stats.objects_created >= 2
    /\ interface.stats.objects_created < Len(mappings)
    /\ interface.stats.connections_created >= 1
    /\ interface.stats.connections_created < Len(cmsd_data.connections)

\* ---- the polling helpers ----
\* the awaited condition was seen by the last poll
observed_before_timeout ==
    w_probes # <<>> /\ condition_observed(w_call, w_probes[Len(w_probes)])

\* C30 as claimed: a polling helper returns True only if the awaited condition
\* was observed before the timeout and False when the timeout elapses without
\* it, and then load_model, start_simulation and stop_simulation return False.
C30_TimeoutReturnsFalse ==
    (w_pc = "returned" /\ w_waited # "none") =>
        /\ w_waited = "true" <=> observed_before_timeout
        /\ ~observed_before_timeout => w_result = "false"

====
